---- MODULE Spec2Model ----
(***************************************************************************)
(* SnowRail payroll pipeline.                                              *)
(*                                                                         *)
(* Two implementations of the pipeline are modelled:                       *)
(*   - the POST /api/payment/process handler (registerPaymentRoutes),      *)
(*   - executePayrollDemo (payrollService.ts); the file defines it twice,  *)
(*     mode "demo" is the first definition and "demo_second" the second.   *)
(* Every await of the source is one action; the outcome of the awaited     *)
(* call (returns / throws, and what it returns) is chosen with \E.         *)
(***************************************************************************)
EXTENDS Integers, Sequences, FiniteSets, TLC

VARIABLES
    mode,          \* "handler" | "demo" | "demo_second": which code runs
    pc,            \* position of the run in its code
    req,           \* the request body (handler)
    env,           \* process.env rail settings
    payrollId,     \* local payrollId / payroll.id ("null" before creation)
    payroll,       \* the Payroll row: [exists, status]
    payments,      \* the Payment rows of the payroll: sequence of statuses
    steps,         \* local steps map
    errors,        \* local errors array
    transactions,  \* local transactions object
    railResult,    \* local railResult object / railPaymentResult
    onchainSuccess,\* local of executePayrollDemo (first definition)
    thrown,        \* message of the exception travelling to the outer catch
    response,      \* the HTTP response sent (handler)
    outcome,       \* "running" | "responded" | "returned" | "threw"
    log,           \* calls and writes made so far, in order
    returned,      \* hash lists the gateway calls returned (handler)
    vfn,           \* validation entry point that runs ("none" in a pipeline run)
    vpc,           \* position of the validation run
    headerValue,   \* X-PAYMENT header value / proof
    meterId,       \* meter id of the resource
    config,        \* NODE_ENV and the x402 settings of config/env
    vresult,       \* what the validation returned / answered
    facilitatorCalls, \* verification calls made to the facilitator
    facilitatorOutcome, \* how the awaited facilitator call ended ("none" before)
    gate,          \* the x402 gate's decision for the request
    tfn,           \* treasury-test entry point that runs ("none" elsewhere)
    tpc,           \* position of that run
    treq,          \* its request: controller initialised, header, meter chain
    paymentPayload,   \* whether testContract built a payment payload
    verifyResult,     \* how the verification call ended ("none" before)
    verifyCalls,      \* verification calls made by the run
    settleCalls,      \* settlement calls made by the run
    settlementResult, \* what the settlement call returned
    tresponse,     \* the response of the run
    current,       \* which of two concurrent requests is scheduled (0: one run)
    parked,        \* the locals of the request that waits at an await
    db,            \* the rows of the waiting request, by payroll id
    bdb,           \* the merchant rows: one payment intent, one company balance
    calls,         \* the concurrent confirmPayment / updateCompanyBalance calls
    auth,          \* useProvideAuth: React state, isCheckingRef, stored token
    acalls,        \* the checkAuth / login / signup calls made so far
    loggedOut      \* logout ran and no login, signup or checkAuth began since

vars == << mode, pc, req, env, payrollId, payroll, payments, steps, errors,
           transactions, railResult, onchainSuccess, thrown, response,
           outcome, log, returned, vfn, vpc, headerValue, meterId, config,
           vresult, facilitatorCalls, facilitatorOutcome, gate,
           tfn, tpc, treq, paymentPayload, verifyResult, verifyCalls,
           settleCalls, settlementResult, tresponse, current, parked, db,
           bdb, calls, auth, acalls, loggedOut >>

\* the payment-validation state
vvars == << vfn, vpc, headerValue, meterId, config, vresult, facilitatorCalls,
           facilitatorOutcome >>

\* the pipeline state
pvars == << mode, pc, req, env, payrollId, payroll, payments, steps, errors,
            transactions, railResult, onchainSuccess, thrown, response,
            outcome, log, returned >>

\* the gate state
gvars == << gate >>

\* the state of a treasury-test or facilitator-route run
tvars == << tfn, tpc, treq, paymentPayload, verifyResult, verifyCalls,
            settleCalls, settlementResult, tresponse >>

\* the scheduling state of two concurrent requests
cvars == << current, parked, db >>

\* the merchant payment state
bvars == << bdb, calls >>

\* the state of the frontend auth hook
avars == << auth, acalls, loggedOut >>

\* what a pipeline step leaves alone
outsidePipeline == << vvars, gvars, tvars, cvars, bvars, avars >>

\* what a validation step leaves alone
outsideValidator == << pvars, gvars, tvars, cvars, bvars, avars >>

\* what a treasury-test step leaves alone
outsideTreasury == << pvars, vvars, gvars, cvars, bvars, avars >>

\* what a merchant payment step leaves alone
outsideMerchant == << pvars, vvars, gvars, tvars, cvars, avars >>

\* what a step of the auth hook leaves alone
outsideAuth == << pvars, vvars, gvars, tvars, cvars, bvars >>

----------------------------------------------------------------------------
(* Domain constants *)

PENDING == "PENDING"
ONCHAIN_REQUESTED == "ONCHAIN_REQUESTED"
ONCHAIN_PAID == "ONCHAIN_PAID"
RAIL_PROCESSING == "RAIL_PROCESSING"
PAID == "PAID"
FAILED == "FAILED"

PayrollStatus ==
    {PENDING, ONCHAIN_REQUESTED, ONCHAIN_PAID, RAIL_PROCESSING, PAID, FAILED}

\* statuses the rail collaborator may report
RailStatuses == {"PAID", "FAILED", "PENDING", "PROCESSING"}

\* transaction-hash lists a gateway call may return
RequestHashLists == {<< >>, <<"0xAAA">>}
ExecuteHashLists == {<< >>, <<"0xBBB">>}

\* number of Payment rows the handler creates (one-element array)
HandlerPayments == 1
\* number of entries of DEMO_PAYMENTS
DemoPayments == 10

NoSteps ==
    [ payroll_created |-> FALSE, payments_created |-> FALSE,
      treasury_checked |-> FALSE, onchain_requested |-> FALSE,
      onchain_executed |-> FALSE, rail_processed |-> FALSE ]

NoTransactions ==
    [ hasRequest |-> FALSE, request_tx_hashes |-> << >>,
      hasExecute |-> FALSE, execute_tx_hashes |-> << >> ]

NoRail == [ has |-> FALSE, withdrawal_id |-> "", status |-> "" ]

NoResponse ==
    [ code |-> 0, fields |-> {}, success |-> FALSE, error |-> "",
      payrollId |-> "null", status |-> "", steps |-> NoSteps,
      transactions |-> NoTransactions, rail |-> NoRail, errors |-> << >> ]

NoRow == [ exists |-> FALSE, status |-> "" ]

PayrollIds == {"p1", "p2"}

\* the database without rows
NoRows == [ id \in PayrollIds |-> [ payroll |-> NoRow, payments |-> << >> ] ]

\* variant of NewPayrollId that hands out the same id again
NewPayrollId_Reused == "p1"

\* the id prisma.payroll.create gives the new row: one no row has yet
NewPayrollId == IF db["p1"].payroll.exists THEN "p2" ELSE "p1"

\* request bodies: a field is TRUE when present and truthy
Requests ==
    [ body : BOOLEAN, customer : BOOLEAN, payment : BOOLEAN,
      first_name : BOOLEAN, last_name : BOOLEAN,
      hasAmount : BOOLEAN, amount : {-1, 0, 1},
      source_account_id : BOOLEAN, counterparty_id : BOOLEAN ]

Envs == [ RAIL_SOURCE_ACCOUNT_ID : BOOLEAN, RAIL_COUNTERPARTY_ID : BOOLEAN ]

\* executePayrollDemo takes no request
DemoReq ==
    [ body |-> TRUE, customer |-> TRUE, payment |-> TRUE,
      first_name |-> TRUE, last_name |-> TRUE,
      hasAmount |-> TRUE, amount |-> 1,
      source_account_id |-> FALSE, counterparty_id |-> FALSE ]

DemoEnv == [ RAIL_SOURCE_ACCOUNT_ID |-> FALSE, RAIL_COUNTERPARTY_ID |-> FALSE ]

\* the locals of a request that has not started
FreshLocals(r, e) ==
    [ mode |-> "handler", pc |-> "validate", req |-> r, env |-> e,
      payrollId |-> "null", steps |-> NoSteps, errors |-> << >>,
      transactions |-> NoTransactions, railResult |-> NoRail,
      onchainSuccess |-> FALSE, thrown |-> "", response |-> NoResponse,
      outcome |-> "running", log |-> << >>,
      returned |-> [ request |-> << >>, execute |-> << >> ] ]

\* one request at a time
ConcurrentIdle ==
    /\ current = 0
    /\ parked = FreshLocals(DemoReq, DemoEnv)
    /\ db = NoRows

\* the callers of the merchant payment functions
Callers == {1, 2}

NoPaymentRow == [ exists |-> FALSE, status |-> "", txHash |-> "", amountToken |-> 0 ]

NoBalance == [ exists |-> FALSE, balanceToken |-> 0, balanceUsd |-> 0 ]

\* checkAuth / login / signup calls a behaviour may hold
MaxCalls == 3
CallIds == 1..MaxCalls

\* a slot of acalls no call has taken
NoAuthCall == [ fn |-> "none", pc |-> "idle", skipLoading |-> FALSE ]

NoToken == "null"

\* useState initial values, isCheckingRef = useRef(false), no stored token
FreshAuth ==
    [ user |-> "null", company |-> "null", isLoading |-> TRUE,
      error |-> "null", isChecking |-> FALSE, token |-> NoToken ]

AuthIdle ==
    /\ auth = FreshAuth
    /\ acalls = [ i \in CallIds |-> NoAuthCall ]
    /\ loggedOut = FALSE

\* a call that was not made
NoCall ==
    [ fn |-> "none", pc |-> "idle", paymentIntentId |-> "", txHash |-> "",
      amount |-> 0, usdPrice |-> 0, payment |-> NoPaymentRow,
      existing |-> NoBalance, writes |-> 0, result |-> "none", error |-> "",
      returned |-> NoPaymentRow ]

\* no merchant payment call
MerchantIdle ==
    /\ bdb = [ payment |-> NoPaymentRow, balance |-> NoBalance,
               initial |-> NoBalance ]
    /\ calls = [ c \in Callers |-> NoCall ]

----------------------------------------------------------------------------
(* Helpers *)

Event(op, arg, res) == [ op |-> op, arg |-> arg, res |-> res ]

Logged(e) == log' = Append(log, e)

PushError(step, msg) == errors' = Append(errors, [ step |-> step, error |-> msg ])

SetStep(name) == steps' = [ steps EXCEPT ![name] = TRUE ]

\* prisma.payroll.update({ data: { status } })
PayrollUpdate(status) == payroll' = [ payroll EXCEPT !.status = status ]

\* updatePayrollPaymentsStatus(payrollId, status): every row of the payroll
PaymentsUpdate(status) == payments' = [ i \in DOMAIN payments |-> status ]

\* createManyPayments: n rows at PENDING
PaymentsCreate(n) == payments' = [ i \in 1..n |-> PENDING ]

StepErrors(step) == { i \in DOMAIN errors : errors[i].step = step }

Occurs(op) == { i \in DOMAIN log : log[i].op = op }

----------------------------------------------------------------------------
(* POST /api/payment/process *)

\* variant of ValidationError whose amount guard is only !amount
ValidationError_NoSignCheck(r) ==
    IF ~r.body THEN "Request body is required"
    ELSE IF ~r.customer \/ ~r.payment
         THEN "Missing required fields: customer and payment"
    ELSE IF ~r.first_name \/ ~r.last_name
         THEN "Customer first_name and last_name are required"
    ELSE IF ~r.hasAmount \/ r.amount = 0
         THEN "Payment amount must be greater than 0"
    ELSE ""

\* the four validation guards, in order; "" when the body is accepted
ValidationError(r) ==
    IF ~r.body THEN "Request body is required"
    ELSE IF ~r.customer \/ ~r.payment
         THEN "Missing required fields: customer and payment"
    ELSE IF ~r.first_name \/ ~r.last_name
         THEN "Customer first_name and last_name are required"
    ELSE IF ~r.hasAmount \/ r.amount = 0 \/ r.amount <= 0
         THEN "Payment amount must be greater than 0"
    ELSE ""

\* variant of Validate whose 400 response is not followed by a return
Validate_RespondsAndContinues ==
    /\ mode = "handler" /\ pc = "validate"
    /\ IF ValidationError(req) # ""
       THEN /\ response' = [ NoResponse EXCEPT
                               !.code = 400,
                               !.fields = {"success", "error", "message"},
                               !.success = FALSE,
                               !.error = "INVALID_REQUEST" ]
            /\ outcome' = "responded"
       ELSE UNCHANGED << response, outcome >>
    /\ pc' = "create_payroll"
    /\ UNCHANGED << outsidePipeline, returned, mode, req, env, payrollId, payroll, payments, steps,
                    errors, transactions, railResult, onchainSuccess, thrown,
                    log >>

\* the validation at the head of the handler
Validate ==
    /\ mode = "handler" /\ pc = "validate"
    /\ IF ValidationError(req) # ""
       THEN /\ response' = [ NoResponse EXCEPT
                               !.code = 400,
                               !.fields = {"success", "error", "message"},
                               !.success = FALSE,
                               !.error = "INVALID_REQUEST" ]
            /\ outcome' = "responded"
            /\ pc' = "done"
       ELSE /\ pc' = "create_payroll"
            /\ UNCHANGED << response, outcome >>
    /\ UNCHANGED << outsidePipeline, returned, mode, req, env, payrollId, payroll, payments, steps,
                    errors, transactions, railResult, onchainSuccess, thrown,
                    log >>

\* Step 1
CreatePayroll ==
    /\ mode = "handler" /\ pc = "create_payroll"
    /\ \/ /\ payroll' = [ exists |-> TRUE, status |-> PENDING ]
          /\ payrollId' = NewPayrollId
          /\ SetStep("payroll_created")
          /\ Logged(Event("payroll.create", PENDING, "ok"))
          /\ pc' = "create_payments"
          /\ UNCHANGED << errors, thrown >>
       \/ /\ PushError("payroll_created", "db_error")
          /\ thrown' = "db_error"
          /\ Logged(Event("payroll.create", PENDING, "throw"))
          /\ pc' = "catch"
          /\ UNCHANGED << payroll, payrollId, steps >>
    /\ UNCHANGED << outsidePipeline, returned, mode, req, env, payments, transactions, railResult,
                    onchainSuccess, response, outcome >>

\* variant of CreatePayments whose catch block does not rethrow
CreatePayments_Continues ==
    /\ mode = "handler" /\ pc = "create_payments"
    /\ \/ /\ PaymentsCreate(HandlerPayments)
          /\ SetStep("payments_created")
          /\ Logged(Event("createManyPayments", PENDING, "ok"))
          /\ UNCHANGED errors
       \/ /\ PushError("payments_created", "db_error")
          /\ Logged(Event("createManyPayments", PENDING, "throw"))
          /\ UNCHANGED << payments, steps >>
    /\ pc' = "treasury"
    /\ UNCHANGED << outsidePipeline, returned, mode, req, env, payrollId, payroll, transactions,
                    railResult, onchainSuccess, response, outcome, thrown >>

\* Step 2
CreatePayments ==
    /\ mode = "handler" /\ pc = "create_payments"
    /\ \/ /\ PaymentsCreate(HandlerPayments)
          /\ SetStep("payments_created")
          /\ Logged(Event("createManyPayments", PENDING, "ok"))
          /\ pc' = "treasury"
          /\ UNCHANGED << errors, thrown >>
       \/ /\ PushError("payments_created", "db_error")
          /\ thrown' = "db_error"
          /\ Logged(Event("createManyPayments", PENDING, "throw"))
          /\ pc' = "catch"
          /\ UNCHANGED << payments, steps >>
    /\ UNCHANGED << outsidePipeline, returned, mode, req, env, payrollId, payroll, transactions,
                    railResult, onchainSuccess, response, outcome >>

\* variant of CheckTreasury that treats a failed check as critical
CheckTreasury_AbortsOnFailure ==
    /\ mode = "handler" /\ pc = "treasury"
    /\ \/ /\ \E sufficient \in BOOLEAN :
                Logged(Event("checkTreasuryBalance",
                             IF sufficient THEN "sufficient" ELSE "insufficient",
                             "ok"))
          /\ SetStep("treasury_checked")
          /\ pc' = "request"
          /\ UNCHANGED << errors, thrown >>
       \/ /\ PushError("treasury_checked", "treasury_error")
          /\ Logged(Event("checkTreasuryBalance", "", "throw"))
          /\ thrown' = "treasury_error"
          /\ pc' = "catch"
          /\ UNCHANGED steps
    /\ UNCHANGED << outsidePipeline, returned, mode, req, env, payrollId, payroll, payments,
                    transactions, railResult, onchainSuccess,
                    response, outcome >>

\* Step 3: the balance comparison only logs a warning
CheckTreasury ==
    /\ mode = "handler" /\ pc = "treasury"
    /\ \/ /\ \E sufficient \in BOOLEAN :
                Logged(Event("checkTreasuryBalance",
                             IF sufficient THEN "sufficient" ELSE "insufficient",
                             "ok"))
          /\ SetStep("treasury_checked")
          /\ UNCHANGED errors
       \/ /\ PushError("treasury_checked", "treasury_error")
          /\ Logged(Event("checkTreasuryBalance", "", "throw"))
          /\ UNCHANGED steps
    /\ pc' = "request"
    /\ UNCHANGED << outsidePipeline, returned, mode, req, env, payrollId, payroll, payments,
                    transactions, railResult, onchainSuccess, thrown,
                    response, outcome >>

\* requestPayrollPayments / executePayrollPayments: the treasury gateway
\* returns the list of transaction hashes or throws a chain-level error
GatewayReturns(hashLists) == hashLists

\* variant of RequestTry that does not keep the returned hashes
RequestTry_DropsHashes(hs) ==
    /\ transactions' = [ transactions EXCEPT !.hasRequest = TRUE ]
    /\ SetStep("onchain_requested")
    /\ Logged(Event("requestPayrollPayments", "", "ok"))
    /\ returned' = [ returned EXCEPT !.request = hs ]
    /\ pc' = "execute"
    /\ UNCHANGED << errors, thrown >>

\* Step 4, try block
RequestTry(hs) ==
    /\ transactions' = [ transactions EXCEPT !.hasRequest = TRUE,
                                             !.request_tx_hashes = hs ]
    /\ SetStep("onchain_requested")
    /\ Logged(Event("requestPayrollPayments", "", "ok"))
    /\ returned' = [ returned EXCEPT !.request = hs ]
    /\ pc' = "execute"
    /\ UNCHANGED << errors, thrown >>

\* Step 4, catch block: "Continue - we can still process through Rail"
RequestCatch ==
    /\ PushError("onchain_requested", "chain_error")
    /\ Logged(Event("requestPayrollPayments", "", "throw"))
    /\ pc' = "execute"
    /\ UNCHANGED << transactions, steps, thrown, returned >>

RequestOnchain ==
    /\ mode = "handler" /\ pc = "request"
    /\ \/ \E hs \in GatewayReturns(RequestHashLists) : RequestTry(hs)
       \/ RequestCatch
    /\ UNCHANGED << outsidePipeline, mode, req, env, payrollId, payroll, payments, railResult,
                    onchainSuccess, response, outcome >>

\* Step 5, try block
ExecuteTry(hs) ==
    /\ transactions' = [ transactions EXCEPT !.hasExecute = TRUE,
                                             !.execute_tx_hashes = hs ]
    /\ SetStep("onchain_executed")
    /\ Logged(Event("executePayrollPayments", "", "ok"))
    /\ returned' = [ returned EXCEPT !.execute = hs ]
    /\ pc' = "rail_config"
    /\ UNCHANGED << errors, thrown >>

\* variant of ExecuteCatch that rethrows to the outer handler
ExecuteCatch_Rethrows ==
    /\ PushError("onchain_executed", "chain_error")
    /\ Logged(Event("executePayrollPayments", "", "throw"))
    /\ thrown' = "chain_error"
    /\ pc' = "catch"
    /\ UNCHANGED << transactions, steps, returned >>

\* Step 5, catch block: "Continue - we can still process through Rail"
ExecuteCatch ==
    /\ PushError("onchain_executed", "chain_error")
    /\ Logged(Event("executePayrollPayments", "", "throw"))
    /\ pc' = "rail_config"
    /\ UNCHANGED << transactions, steps, thrown, returned >>

ExecuteOnchain ==
    /\ mode = "handler" /\ pc = "execute"
    /\ \/ \E hs \in GatewayReturns(ExecuteHashLists) : ExecuteTry(hs)
       \/ ExecuteCatch
    /\ UNCHANGED << outsidePipeline, mode, req, env, payrollId, payroll, payments, railResult,
                    onchainSuccess, response, outcome >>

\* paymentRequest.rail?.source_account_id || process.env.RAIL_SOURCE_ACCOUNT_ID
SourceAccountId(r, e) == r.source_account_id \/ e.RAIL_SOURCE_ACCOUNT_ID

\* paymentRequest.rail?.counterparty_id || process.env.RAIL_COUNTERPARTY_ID
CounterpartyId(r, e) == r.counterparty_id \/ e.RAIL_COUNTERPARTY_ID

\* the negation of: !sourceAccountId || !counterpartyId
RailConfigured(r, e) == SourceAccountId(r, e) /\ CounterpartyId(r, e)

\* variant of RailSkip that treats the missing configuration as a failure
RailSkip_MarksFailed ==
    /\ PushError("rail_processed", "Rail accounts not configured")
    /\ steps' = [ steps EXCEPT !.rail_processed = FALSE ]
    /\ PayrollUpdate(FAILED)
    /\ PaymentsUpdate(FAILED)
    /\ pc' = "read_final"
    /\ UNCHANGED << railResult, log >>

\* Step 6, branch "Rail accounts not configured"
RailSkip ==
    /\ PushError("rail_processed", "Rail accounts not configured")
    /\ steps' = [ steps EXCEPT !.rail_processed = FALSE ]
    /\ pc' = "read_final"
    /\ UNCHANGED << payroll, payments, railResult, log >>

\* Step 6, catch block of the rail try
RailCatch(e) ==
    /\ PushError("rail_processed", "rail_error")
    /\ Logged(e)
    /\ pc' = "read_final"

RailConfig ==
    /\ mode = "handler" /\ pc = "rail_config"
    /\ IF ~RailConfigured(req, env)
       THEN RailSkip
       ELSE /\ pc' = "rail_mark_payroll"
            /\ UNCHANGED << errors, steps, payroll, payments, railResult, log >>
    /\ UNCHANGED << outsidePipeline, returned, mode, req, env, payrollId, transactions, onchainSuccess,
                    thrown, response, outcome >>

\* "Update status to RAIL_PROCESSING": the Payroll row
RailMarkPayroll ==
    /\ mode = "handler" /\ pc = "rail_mark_payroll"
    /\ \/ /\ PayrollUpdate(RAIL_PROCESSING)
          /\ Logged(Event("payroll.update", RAIL_PROCESSING, "ok"))
          /\ pc' = "rail_mark_payments"
          /\ UNCHANGED errors
       \/ /\ RailCatch(Event("payroll.update", RAIL_PROCESSING, "throw"))
          /\ UNCHANGED payroll
    /\ UNCHANGED << outsidePipeline, returned, mode, req, env, payrollId, payments, steps, transactions,
                    railResult, onchainSuccess, thrown, response, outcome >>

\* "Update status to RAIL_PROCESSING": the Payment rows
RailMarkPayments ==
    /\ mode = "handler" /\ pc = "rail_mark_payments"
    /\ \/ /\ PaymentsUpdate(RAIL_PROCESSING)
          /\ Logged(Event("payments.update", RAIL_PROCESSING, "ok"))
          /\ pc' = "rail_call"
          /\ UNCHANGED errors
       \/ /\ RailCatch(Event("payments.update", RAIL_PROCESSING, "throw"))
          /\ UNCHANGED payments
    /\ UNCHANGED << outsidePipeline, returned, mode, req, env, payrollId, payroll, steps, transactions,
                    railResult, onchainSuccess, thrown, response, outcome >>

\* createRailPayment(...) and the assignments to railResult
RailCall ==
    /\ mode = "handler" /\ pc = "rail_call"
    /\ \/ \E st \in RailStatuses :
             /\ railResult' = [ has |-> TRUE, withdrawal_id |-> "w1",
                                status |-> st ]
             /\ Logged(Event("createRailPayment", st, "ok"))
             /\ pc' = "rail_final_payroll"
             /\ UNCHANGED errors
       \/ /\ RailCatch(Event("createRailPayment", "", "throw"))
          /\ UNCHANGED railResult
    /\ UNCHANGED << outsidePipeline, returned, mode, req, env, payrollId, payroll, payments, steps,
                    transactions, onchainSuccess, thrown, response, outcome >>

\* variant of FinalStatus without the on-chain precedence (PAID or FAILED)
FinalStatus_PaidOrFailed(railStatus, onchainExecuted) ==
    IF railStatus = "PAID" THEN PAID ELSE FAILED

\* "Update final status based on Rail result": finalStatus (and the equal
\* finalPaymentStatus) from railPaymentResult.status and steps.onchain_executed
FinalStatus(railStatus, onchainExecuted) ==
    IF railStatus = "PAID" THEN PAID
    ELSE IF railStatus = "FAILED"
         THEN IF onchainExecuted THEN ONCHAIN_PAID ELSE FAILED
    ELSE IF onchainExecuted THEN ONCHAIN_PAID ELSE RAIL_PROCESSING

RailFinalPayroll ==
    /\ mode = "handler" /\ pc = "rail_final_payroll"
    /\ LET fs == FinalStatus(railResult.status, steps.onchain_executed) IN
       \/ /\ PayrollUpdate(fs)
          /\ Logged(Event("payroll.update", fs, "ok"))
          /\ pc' = "rail_final_payments"
          /\ UNCHANGED errors
       \/ /\ RailCatch(Event("payroll.update", fs, "throw"))
          /\ UNCHANGED payroll
    /\ UNCHANGED << outsidePipeline, returned, mode, req, env, payrollId, payments, steps, transactions,
                    railResult, onchainSuccess, thrown, response, outcome >>

RailFinalPayments ==
    /\ mode = "handler" /\ pc = "rail_final_payments"
    /\ LET fs == FinalStatus(railResult.status, steps.onchain_executed) IN
       \/ /\ PaymentsUpdate(fs)
          /\ Logged(Event("payments.update", fs, "ok"))
          /\ SetStep("rail_processed")
          /\ pc' = "read_final"
          /\ UNCHANGED errors
       \/ /\ RailCatch(Event("payments.update", fs, "throw"))
          /\ UNCHANGED << payments, steps >>
    /\ UNCHANGED << outsidePipeline, returned, mode, req, env, payrollId, payroll, transactions,
                    railResult, onchainSuccess, thrown, response, outcome >>

\* steps.onchain_executed || steps.rail_processed ||
\*   (steps.onchain_requested && errors.length === 0)
IsSuccess(st, errs) ==
    st.onchain_executed \/ st.rail_processed
        \/ (st.onchain_requested /\ Len(errs) = 0)

\* finalPayroll?.status || PayrollStatus.FAILED
ReportedStatus(row) == IF row.exists /\ row.status # "" THEN row.status ELSE FAILED

\* the 200 response object; undefined members are left out of the JSON
SuccessResponse(row) ==
    [ code |-> 200,
      fields |-> {"success", "payrollId", "status", "steps"}
                   \cup (IF transactions.hasRequest \/ transactions.hasExecute
                         THEN {"transactions"} ELSE {})
                   \cup (IF railResult.has THEN {"rail"} ELSE {})
                   \cup (IF Len(errors) > 0 THEN {"errors"} ELSE {}),
      success |-> IsSuccess(steps, errors),
      error |-> "",
      payrollId |-> payrollId,
      status |-> ReportedStatus(row),
      steps |-> steps,
      transactions |-> transactions,
      rail |-> railResult,
      errors |-> errors ]

\* "Get final payroll status" and res.status(200).json(response)
ReadFinal ==
    /\ mode = "handler" /\ pc = "read_final"
    /\ \/ /\ response' = SuccessResponse(payroll)
          /\ outcome' = "responded"
          /\ Logged(Event("payroll.findUnique", payroll.status, "ok"))
          /\ pc' = "done"
          /\ UNCHANGED thrown
       \/ /\ thrown' = "db_error"
          /\ Logged(Event("payroll.findUnique", "", "throw"))
          /\ pc' = "catch"
          /\ UNCHANGED << response, outcome >>
    /\ UNCHANGED << outsidePipeline, returned, mode, req, env, payrollId, payroll, payments, steps,
                    errors, transactions, railResult, onchainSuccess >>

\* variant of FailureResponse without the step map
FailureResponse_NoSteps ==
    [ code |-> 500,
      fields |-> {"success", "error", "message", "errors"}
                   \cup (IF payrollId # "null" THEN {"payrollId"} ELSE {}),
      success |-> FALSE,
      error |-> "PROCESSING_FAILED",
      payrollId |-> payrollId,
      status |-> "",
      steps |-> NoSteps,
      transactions |-> NoTransactions,
      rail |-> NoRail,
      errors |-> IF Len(errors) > 0 THEN errors
                 ELSE << [ step |-> "unknown", error |-> thrown ] >> ]

\* the 500 response object
FailureResponse ==
    [ code |-> 500,
      fields |-> {"success", "error", "message", "steps", "errors"}
                   \cup (IF payrollId # "null" THEN {"payrollId"} ELSE {}),
      success |-> FALSE,
      error |-> "PROCESSING_FAILED",
      payrollId |-> payrollId,
      status |-> "",
      steps |-> steps,
      transactions |-> NoTransactions,
      rail |-> NoRail,
      errors |-> IF Len(errors) > 0 THEN errors
                 ELSE << [ step |-> "unknown", error |-> thrown ] >> ]

\* variant of OuterCatch in which a failed FAILED write escapes the handler
OuterCatch_WriteFailureEscapes ==
    /\ mode = "handler" /\ pc = "catch"
    /\ IF payrollId # "null"
       THEN \/ /\ PayrollUpdate(FAILED)
               /\ Logged(Event("payroll.update", FAILED, "ok"))
               /\ response' = FailureResponse
               /\ outcome' = "responded"
            \/ /\ Logged(Event("payroll.update", FAILED, "throw"))
               /\ outcome' = "threw"
               /\ UNCHANGED << payroll, response >>
       ELSE /\ response' = FailureResponse
            /\ outcome' = "responded"
            /\ UNCHANGED << payroll, log >>
    /\ pc' = "done"
    /\ UNCHANGED << outsidePipeline, returned, mode, req, env, payrollId, payments, steps, errors,
                    transactions, railResult, onchainSuccess, thrown >>

\* the outer catch: best-effort FAILED write on the Payroll row, then 500
OuterCatch ==
    /\ mode = "handler" /\ pc = "catch"
    /\ IF payrollId # "null"
       THEN \/ /\ PayrollUpdate(FAILED)
               /\ Logged(Event("payroll.update", FAILED, "ok"))
            \/ /\ Logged(Event("payroll.update", FAILED, "throw"))
               /\ UNCHANGED payroll
       ELSE UNCHANGED << payroll, log >>
    /\ response' = FailureResponse
    /\ outcome' = "responded"
    /\ pc' = "done"
    /\ UNCHANGED << outsidePipeline, returned, mode, req, env, payrollId, payments, steps, errors,
                    transactions, railResult, onchainSuccess, thrown >>

----------------------------------------------------------------------------
(* executePayrollDemo *)

\* the two definitions of executePayrollDemo in payrollService.ts
DemoModes == {"demo", "demo_second"}

\* an exception leaves executePayrollDemo
DemoThrows(e) ==
    /\ Logged(e)
    /\ outcome' = "threw"
    /\ pc' = "done"

DemoCreatePayroll ==
    /\ mode \in DemoModes /\ pc = "d_create_payroll"
    /\ \/ /\ payroll' = [ exists |-> TRUE, status |-> PENDING ]
          /\ payrollId' = NewPayrollId
          /\ Logged(Event("payroll.create", PENDING, "ok"))
          /\ pc' = "d_create_payments"
          /\ UNCHANGED outcome
       \/ /\ DemoThrows(Event("payroll.create", PENDING, "throw"))
          /\ UNCHANGED << payroll, payrollId >>
    /\ UNCHANGED << outsidePipeline, returned, mode, req, env, payments, steps, errors, transactions,
                    railResult, onchainSuccess, thrown, response >>

DemoCreatePayments ==
    /\ mode \in DemoModes /\ pc = "d_create_payments"
    /\ \/ /\ PaymentsCreate(DemoPayments)
          /\ Logged(Event("createManyPayments", PENDING, "ok"))
          /\ pc' = "d_treasury"
          /\ UNCHANGED outcome
       \/ /\ DemoThrows(Event("createManyPayments", PENDING, "throw"))
          /\ UNCHANGED payments
    /\ UNCHANGED << outsidePipeline, returned, mode, req, env, payrollId, payroll, steps, errors,
                    transactions, railResult, onchainSuccess, thrown,
                    response >>

\* "Check treasury balance before proceeding": a failure is only logged
DemoCheckTreasury ==
    /\ mode \in DemoModes /\ pc = "d_treasury"
    /\ \E res \in {"ok", "throw"} : Logged(Event("checkTreasuryBalance", "", res))
    /\ pc' = "d_request"
    /\ UNCHANGED << outsidePipeline, returned, mode, req, env, payrollId, payroll, payments, steps,
                    errors, transactions, railResult, onchainSuccess, thrown,
                    response, outcome >>

\* "Request payments on-chain": the catch block rethrows
DemoRequestOnchain ==
    /\ mode \in DemoModes /\ pc = "d_request"
    /\ \/ /\ \E hs \in GatewayReturns(RequestHashLists) :
                Logged(Event("requestPayrollPayments", "", "ok"))
          /\ pc' = "d_execute"
          /\ UNCHANGED outcome
       \/ DemoThrows(Event("requestPayrollPayments", "", "throw"))
    /\ UNCHANGED << outsidePipeline, returned, mode, req, env, payrollId, payroll, payments, steps,
                    errors, transactions, railResult, onchainSuccess, thrown,
                    response >>

\* where the rail try block starts: the first definition makes the
\* RAIL_PROCESSING writes only if (onchainSuccess), the second always
DemoRailEntry(success) ==
    IF mode = "demo_second" \/ success
    THEN "d_rail_mark_payroll" ELSE "d_rail_call"

\* onchainSuccess = executeTxHashes.length > 0
DemoOnchainSuccess(hs) == Len(hs) > 0

\* "Execute payments on-chain": the call itself; the second definition only
\* logs the number of hashes and has no ONCHAIN_PAID write (onchainSuccess
\* then records what the call returned, the code keeps no such local)
DemoExecuteOnchain ==
    /\ mode \in DemoModes /\ pc = "d_execute"
    /\ \/ \E hs \in GatewayReturns(ExecuteHashLists) :
             /\ onchainSuccess' = DemoOnchainSuccess(hs)
             /\ Logged(Event("executePayrollPayments", "", "ok"))
             /\ pc' = IF mode = "demo" /\ onchainSuccess'
                      THEN "d_onchain_payroll"
                      ELSE DemoRailEntry(onchainSuccess')
       \/ /\ Logged(Event("executePayrollPayments", "", "throw"))
          /\ pc' = DemoRailEntry(onchainSuccess)
          /\ UNCHANGED onchainSuccess
    /\ UNCHANGED << outsidePipeline, returned, mode, req, env, payrollId, payroll, payments, steps,
                    errors, transactions, railResult, thrown, response,
                    outcome >>

\* "mark as ONCHAIN_PAID": the Payroll row; a throw is caught by the
\* execute step's catch block, onchainSuccess stays true
DemoOnchainPayroll ==
    /\ mode \in DemoModes /\ pc = "d_onchain_payroll"
    /\ \/ /\ PayrollUpdate(ONCHAIN_PAID)
          /\ Logged(Event("payroll.update", ONCHAIN_PAID, "ok"))
          /\ pc' = "d_onchain_payments"
       \/ /\ Logged(Event("payroll.update", ONCHAIN_PAID, "throw"))
          /\ pc' = DemoRailEntry(onchainSuccess)
          /\ UNCHANGED payroll
    /\ UNCHANGED << outsidePipeline, returned, mode, req, env, payrollId, payments, steps, errors,
                    transactions, railResult, onchainSuccess, thrown,
                    response, outcome >>

\* "mark as ONCHAIN_PAID": the Payment rows
DemoOnchainPayments ==
    /\ mode \in DemoModes /\ pc = "d_onchain_payments"
    /\ \/ /\ PaymentsUpdate(ONCHAIN_PAID)
          /\ Logged(Event("payments.update", ONCHAIN_PAID, "ok"))
       \/ /\ Logged(Event("payments.update", ONCHAIN_PAID, "throw"))
          /\ UNCHANGED payments
    /\ pc' = DemoRailEntry(onchainSuccess)
    /\ UNCHANGED << outsidePipeline, returned, mode, req, env, payrollId, payroll, steps, errors,
                    transactions, railResult, onchainSuccess, thrown,
                    response, outcome >>

\* the catch block of the rail try: the error is only logged
DemoRailCatch(e) ==
    /\ Logged(e)
    /\ pc' = "d_return"

DemoRailMarkPayroll ==
    /\ mode \in DemoModes /\ pc = "d_rail_mark_payroll"
    /\ \/ /\ PayrollUpdate(RAIL_PROCESSING)
          /\ Logged(Event("payroll.update", RAIL_PROCESSING, "ok"))
          /\ pc' = "d_rail_mark_payments"
       \/ /\ DemoRailCatch(Event("payroll.update", RAIL_PROCESSING, "throw"))
          /\ UNCHANGED payroll
    /\ UNCHANGED << outsidePipeline, returned, mode, req, env, payrollId, payments, steps, errors,
                    transactions, railResult, onchainSuccess, thrown,
                    response, outcome >>

DemoRailMarkPayments ==
    /\ mode \in DemoModes /\ pc = "d_rail_mark_payments"
    /\ \/ /\ PaymentsUpdate(RAIL_PROCESSING)
          /\ Logged(Event("payments.update", RAIL_PROCESSING, "ok"))
          /\ pc' = "d_rail_call"
       \/ /\ DemoRailCatch(Event("payments.update", RAIL_PROCESSING, "throw"))
          /\ UNCHANGED payments
    /\ UNCHANGED << outsidePipeline, returned, mode, req, env, payrollId, payroll, steps, errors,
                    transactions, railResult, onchainSuccess, thrown,
                    response, outcome >>

\* "Call Rail API"
DemoRailCall ==
    /\ mode \in DemoModes /\ pc = "d_rail_call"
    /\ \/ \E st \in RailStatuses :
             /\ railResult' = [ has |-> TRUE, withdrawal_id |-> "w1",
                                status |-> st ]
             /\ Logged(Event("createRailPayment", st, "ok"))
             /\ pc' = "d_final_payroll"
       \/ /\ DemoRailCatch(Event("createRailPayment", "", "throw"))
          /\ UNCHANGED railResult
    /\ UNCHANGED << outsidePipeline, returned, mode, req, env, payrollId, payroll, payments, steps,
                    errors, transactions, onchainSuccess, thrown, response,
                    outcome >>

\* "Final status based on Rail result": the second definition knows only
\* PAID and FAILED
DemoFinalStatus(railStatus, success) ==
    IF railStatus = "PAID" THEN PAID
    ELSE IF mode = "demo" /\ success THEN ONCHAIN_PAID
    ELSE FAILED

DemoFinalPayroll ==
    /\ mode \in DemoModes /\ pc = "d_final_payroll"
    /\ LET fs == DemoFinalStatus(railResult.status, onchainSuccess) IN
       \/ /\ PayrollUpdate(fs)
          /\ Logged(Event("payroll.update", fs, "ok"))
          /\ pc' = "d_final_payments"
       \/ /\ DemoRailCatch(Event("payroll.update", fs, "throw"))
          /\ UNCHANGED payroll
    /\ UNCHANGED << outsidePipeline, returned, mode, req, env, payrollId, payments, steps, errors,
                    transactions, railResult, onchainSuccess, thrown,
                    response, outcome >>

\* the Payment rows; the Arweave receipt that follows for PAID changes no
\* row and swallows its own errors
DemoFinalPayments ==
    /\ mode \in DemoModes /\ pc = "d_final_payments"
    /\ LET fs == DemoFinalStatus(railResult.status, onchainSuccess) IN
       \/ /\ PaymentsUpdate(fs)
          /\ Logged(Event("payments.update", fs, "ok"))
          /\ pc' = "d_return"
       \/ /\ DemoRailCatch(Event("payments.update", fs, "throw"))
          /\ UNCHANGED payments
    /\ UNCHANGED << outsidePipeline, returned, mode, req, env, payrollId, payroll, steps, errors,
                    transactions, railResult, onchainSuccess, thrown,
                    response, outcome >>

\* return getPayrollById(payroll.id)
DemoReturn ==
    /\ mode \in DemoModes /\ pc = "d_return"
    /\ \/ /\ Logged(Event("payroll.findUnique", payroll.status, "ok"))
          /\ outcome' = "returned"
          /\ pc' = "done"
       \/ DemoThrows(Event("payroll.findUnique", "", "throw"))
    /\ UNCHANGED << outsidePipeline, returned, mode, req, env, payrollId, payroll, payments, steps,
                    errors, transactions, railResult, onchainSuccess, thrown,
                    response >>

----------------------------------------------------------------------------
(* x402 payment validation *)

DEMO_TOKEN == "demo-token"

HeaderValues == {DEMO_TOKEN, "signed-proof"}

\* the meter registry: the ids that resolve
KnownMeters == {"payment_process", "payroll_execute"}

MeterIds == KnownMeters \cup {"unknown_meter"}

\* getMeter(meterId): truthy exactly for a registered id
GetMeter(id) == id \in KnownMeters

MockUrls == {"http://localhost:3000/facilitator-mock"}

FacilitatorUrls == MockUrls \cup {"https://facilitator.ultravioletadao.xyz"}

Configs ==
    [ NODE_ENV : {"production", "development"},
      x402FacilitatorUrl : FacilitatorUrls,
      x402AllowDemoToken : BOOLEAN,
      payToAddress : BOOLEAN ]

\* process.env.NODE_ENV !== "production"
IsDevelopment(c) == c.NODE_ENV # "production"

\* config.x402FacilitatorUrl.includes("mock")
IsMockFacilitator(c) == c.x402FacilitatorUrl \in MockUrls

\* config.x402AllowDemoToken || isDevelopment || isMockFacilitator
AllowDemoToken(c) ==
    c.x402AllowDemoToken \/ IsDevelopment(c) \/ IsMockFacilitator(c)

NoResult ==
    [ done |-> FALSE, code |-> 0, valid |-> FALSE, error |-> "",
      payer |-> "", amount |-> "" ]

\* return <boolean> of validateXPaymentHeader
ReturnsBoolean(b) == [ NoResult EXCEPT !.done = TRUE, !.valid = b ]

\* the demo ValidationResult of validatePaymentDetailed
DemoResult ==
    [ NoResult EXCEPT !.done = TRUE, !.valid = TRUE,
                      !.payer = "0xDemoPayerAddress", !.amount = "1" ]

\* what validateWithFacilitator may resolve to
FacilitatorResults ==
    { [ valid |-> TRUE, payer |-> "0xPayer", amount |-> "1", error |-> "" ],
      [ valid |-> FALSE, payer |-> "", amount |-> "",
        error |-> "INVALID_PAYMENT" ] }

\* how a resolved facilitator call is remembered
Resolved(result) == IF result.valid THEN "valid" ELSE "invalid"

Returns(r) ==
    /\ vresult' = r
    /\ vpc' = "done"

CallsFacilitator ==
    /\ facilitatorCalls' = facilitatorCalls + 1
    /\ vpc' = "facilitator"
    /\ UNCHANGED vresult

\* validateXPaymentHeader up to the await of validateWithFacilitator
HeaderStart ==
    /\ vfn = "header" /\ vpc = "start"
    /\ IF headerValue = DEMO_TOKEN /\ AllowDemoToken(config)
       THEN Returns(ReturnsBoolean(TRUE)) /\ UNCHANGED facilitatorCalls
       ELSE IF ~GetMeter(meterId)
       THEN /\ Returns(ReturnsBoolean(headerValue = DEMO_TOKEN
                                        /\ AllowDemoToken(config)))
            /\ UNCHANGED facilitatorCalls
       ELSE CallsFacilitator
    /\ UNCHANGED << outsideValidator, vfn, headerValue, meterId, config,
                    facilitatorOutcome >>

\* validateXPaymentHeader after the await: the result or the catch block
HeaderFacilitator ==
    /\ vfn = "header" /\ vpc = "facilitator"
    /\ \/ \E result \in FacilitatorResults :
             /\ Returns(ReturnsBoolean(
                    result.valid
                      \/ (headerValue = DEMO_TOKEN /\ AllowDemoToken(config))))
             /\ facilitatorOutcome' = Resolved(result)
       \/ /\ Returns(ReturnsBoolean(headerValue = DEMO_TOKEN
                                      /\ AllowDemoToken(config)))
          /\ facilitatorOutcome' = "throws"
    /\ UNCHANGED << outsideValidator, vfn, headerValue, meterId, config,
                    facilitatorCalls >>

\* variant of DetailedStart that asks the facilitator without a meter lookup
DetailedStart_NoMeterLookup ==
    /\ vfn = "detailed" /\ vpc = "start"
    /\ IF headerValue = DEMO_TOKEN /\ IsMockFacilitator(config)
       THEN Returns(DemoResult) /\ UNCHANGED facilitatorCalls
       ELSE CallsFacilitator
    /\ UNCHANGED << outsideValidator, vfn, headerValue, meterId, config,
                    facilitatorOutcome >>

\* validatePaymentDetailed up to the await of validateWithFacilitator
DetailedStart ==
    /\ vfn = "detailed" /\ vpc = "start"
    /\ IF headerValue = DEMO_TOKEN /\ IsMockFacilitator(config)
       THEN Returns(DemoResult) /\ UNCHANGED facilitatorCalls
       ELSE IF ~GetMeter(meterId)
       THEN /\ Returns([ NoResult EXCEPT !.done = TRUE, !.valid = FALSE,
                                         !.error = "METER_NOT_FOUND" ])
            /\ UNCHANGED facilitatorCalls
       ELSE CallsFacilitator
    /\ UNCHANGED << outsideValidator, vfn, headerValue, meterId, config,
                    facilitatorOutcome >>

\* the catch block of validatePaymentDetailed
DetailedCatch ==
    IF headerValue = DEMO_TOKEN
    THEN Returns(DemoResult)
    ELSE Returns([ NoResult EXCEPT !.done = TRUE, !.valid = FALSE,
                                   !.error = "facilitator_error" ])

\* validatePaymentDetailed after the await: the result or the catch block
DetailedFacilitator ==
    /\ vfn = "detailed" /\ vpc = "facilitator"
    /\ \/ \E result \in FacilitatorResults :
             /\ Returns([ NoResult EXCEPT !.done = TRUE,
                                          !.valid = result.valid,
                                          !.payer = result.payer,
                                          !.amount = result.amount,
                                          !.error = result.error ])
             /\ facilitatorOutcome' = Resolved(result)
       \/ /\ DetailedCatch
          /\ facilitatorOutcome' = "throws"
    /\ UNCHANGED << outsideValidator, vfn, headerValue, meterId, config,
                    facilitatorCalls >>

\* res.status(code).json({ valid, error }) of the facilitator router
Answers(code, valid, error) ==
    Returns([ NoResult EXCEPT !.done = TRUE, !.code = code,
                              !.valid = valid, !.error = error ])

\* JSON.parse(proof) succeeds
ProofParses(h) == h # DEMO_TOKEN

\* POST /validate of the facilitator router up to the await of verify
ServerValidateStart ==
    /\ vfn = "server_validate" /\ vpc = "start"
    /\ IF ~GetMeter(meterId)
       THEN Answers(400, FALSE, "METER_NOT_FOUND") /\ UNCHANGED facilitatorCalls
       ELSE IF ~ProofParses(headerValue)
       THEN Answers(500, FALSE, "VALIDATION_ERROR") /\ UNCHANGED facilitatorCalls
       ELSE IF ~config.payToAddress
       THEN Answers(500, FALSE, "CONFIGURATION_ERROR")
               /\ UNCHANGED facilitatorCalls
       ELSE CallsFacilitator
    /\ UNCHANGED << outsideValidator, vfn, headerValue, meterId, config,
                    facilitatorOutcome >>

\* POST /validate after the await of facilitator.verify
ServerValidateVerify ==
    /\ vfn = "server_validate" /\ vpc = "facilitator"
    /\ \/ \E isValid \in BOOLEAN :
             /\ IF isValid
                THEN vresult' = [ NoResult EXCEPT !.done = TRUE, !.code = 200,
                                                  !.valid = TRUE,
                                                  !.payer = "0xPayer",
                                                  !.amount = "1" ]
                ELSE vresult' = [ NoResult EXCEPT !.done = TRUE, !.code = 402,
                                                  !.valid = FALSE,
                                                  !.error = "VALIDATION_FAILED" ]
             /\ facilitatorOutcome' = IF isValid THEN "valid" ELSE "invalid"
       \/ /\ vresult' = [ NoResult EXCEPT !.done = TRUE, !.code = 500,
                                          !.valid = FALSE,
                                          !.error = "VALIDATION_ERROR" ]
          /\ facilitatorOutcome' = "throws"
    /\ vpc' = "done"
    /\ UNCHANGED << outsideValidator, vfn, headerValue, meterId, config,
                    facilitatorCalls >>

----------------------------------------------------------------------------
(* POST /api/treasury/test (testContract) and the facilitator's /verify    *)
(* and /settle routes                                                       *)

\* what req.x402.paymentHeader can hold
PaymentHeaders ==
    { "", DEMO_TOKEN, "not-json", "json-without-signature", "json-proof" }

\* JSON.parse succeeds and the proof has authorization and signature
HasAuthorization(h) == h = "json-proof"

\* initialized: the controller's services were injected (testContract), the
\* Thirdweb facilitator can be constructed (facilitator routes)
TreasuryRequests ==
    [ initialized : BOOLEAN, paymentHeader : PaymentHeaders,
      chain : {"fuji", "avalanche"} ]

\* the agent's summary read from the final task ("default" when none)
Summaries == {"default", "all-successful", "some-failed"}

NoSettlement == [ has |-> FALSE, success |-> FALSE, transaction |-> "" ]

\* what merchantExecutor.settlePayment may resolve to
SettlementResults ==
    { [ has |-> TRUE, success |-> TRUE, transaction |-> "0xSETTLED" ],
      [ has |-> TRUE, success |-> FALSE, transaction |-> "" ] }

NoTResponse ==
    [ sent |-> FALSE, code |-> 0, success |-> FALSE, error |-> "",
      summary |-> "", paymentTransaction |-> "" ]

Responds(r) ==
    /\ tresponse' = r
    /\ tpc' = "done"

\* the catch block of testContract
TestContractCatch ==
    Responds([ NoTResponse EXCEPT !.sent = TRUE, !.code = 500,
                                  !.error = "INTERNAL_ERROR" ])

\* testContract up to its first await
TestContractStart ==
    /\ tfn = "testContract" /\ tpc = "start"
    /\ IF ~treq.initialized
       THEN TestContractCatch /\ UNCHANGED paymentPayload
       ELSE /\ paymentPayload' = HasAuthorization(treq.paymentHeader)
            /\ tpc' = IF paymentPayload' THEN "verify" ELSE "execute"
            /\ UNCHANGED tresponse
    /\ UNCHANGED << outsideTreasury, tfn, treq, verifyResult, verifyCalls,
                    settleCalls, settlementResult >>

\* variant of TestContractVerify that goes on when the payment is invalid
TestContractVerify_IgnoresInvalid ==
    /\ tfn = "testContract" /\ tpc = "verify"
    /\ verifyCalls' = verifyCalls + 1
    /\ \/ /\ verifyResult' \in {"valid", "invalid"}
          /\ tpc' = "execute"
          /\ UNCHANGED tresponse
       \/ /\ verifyResult' = "throws"
          /\ TestContractCatch
    /\ UNCHANGED << outsideTreasury, tfn, treq, paymentPayload, settleCalls,
                    settlementResult >>

\* await merchantExecutor.verifyPayment(paymentPayload)
TestContractVerify ==
    /\ tfn = "testContract" /\ tpc = "verify"
    /\ verifyCalls' = verifyCalls + 1
    /\ \/ /\ verifyResult' = "valid"
          /\ tpc' = "execute"
          /\ UNCHANGED tresponse
       \/ /\ verifyResult' = "invalid"
          /\ Responds([ NoTResponse EXCEPT
                          !.sent = TRUE, !.code = 402,
                          !.error = "Payment verification failed" ])
       \/ /\ verifyResult' = "throws"
          /\ TestContractCatch
    /\ UNCHANGED << outsideTreasury, tfn, treq, paymentPayload, settleCalls,
                    settlementResult >>

\* the 200 response of testContract
TestContractResponse(summary, settlement) ==
    [ NoTResponse EXCEPT !.sent = TRUE, !.code = 200, !.success = TRUE,
                         !.summary = summary,
                         !.paymentTransaction = settlement.transaction ]

\* variant of TestContractExecute that still settles when execute threw
TestContractExecute_SettlesOnThrow ==
    /\ tfn = "testContract" /\ tpc = "execute"
    /\ \/ \E summary \in Summaries :
             IF paymentPayload
             THEN /\ tpc' = "settle"
                  /\ tresponse' = [ tresponse EXCEPT !.summary = summary ]
             ELSE Responds(TestContractResponse(summary, NoSettlement))
       \/ IF paymentPayload
          THEN tpc' = "settle" /\ UNCHANGED tresponse
          ELSE TestContractCatch
    /\ UNCHANGED << outsideTreasury, tfn, treq, paymentPayload, verifyResult,
                    verifyCalls, settleCalls, settlementResult >>

\* await exampleService.execute(context, eventQueue)
TestContractExecute ==
    /\ tfn = "testContract" /\ tpc = "execute"
    /\ \/ \E summary \in Summaries :
             IF paymentPayload
             THEN /\ tpc' = "settle"
                  /\ tresponse' = [ tresponse EXCEPT !.summary = summary ]
             ELSE Responds(TestContractResponse(summary, NoSettlement))
       \/ TestContractCatch
    /\ UNCHANGED << outsideTreasury, tfn, treq, paymentPayload, verifyResult,
                    verifyCalls, settleCalls, settlementResult >>

\* settlePayment resolved: the result is kept and the 200 response is sent
TestContractSettled(result) ==
    /\ settlementResult' = result
    /\ Responds(TestContractResponse(tresponse.summary, result))

\* variant of TestContractSettle that calls settlePayment again on failure
TestContractSettle_Retries ==
    /\ tfn = "testContract" /\ tpc = "settle"
    /\ settleCalls' = settleCalls + 1
    /\ \/ \E result \in SettlementResults :
             IF result.success
             THEN TestContractSettled(result)
             ELSE UNCHANGED << settlementResult, tresponse, tpc >>
       \/ TestContractCatch /\ UNCHANGED settlementResult
    /\ UNCHANGED << outsideTreasury, tfn, treq, paymentPayload, verifyResult,
                    verifyCalls >>

\* await merchantExecutor.settlePayment(paymentPayload) and the response
TestContractSettle ==
    /\ tfn = "testContract" /\ tpc = "settle"
    /\ settleCalls' = settleCalls + 1
    /\ \/ \E result \in SettlementResults : TestContractSettled(result)
       \/ TestContractCatch /\ UNCHANGED settlementResult
    /\ UNCHANGED << outsideTreasury, tfn, treq, paymentPayload, verifyResult,
                    verifyCalls >>

\* POST /verify of the facilitator router
ServerVerify ==
    /\ tfn = "server_verify" /\ tpc = "start"
    /\ \/ /\ treq.initialized
          /\ verifyCalls' = verifyCalls + 1
          /\ \/ /\ verifyResult' = "valid"
                /\ Responds([ NoTResponse EXCEPT !.sent = TRUE, !.code = 200,
                                                 !.success = TRUE ])
             \/ /\ verifyResult' = "invalid"
                /\ Responds([ NoTResponse EXCEPT
                                !.sent = TRUE, !.code = 402,
                                !.error = "VERIFICATION_FAILED" ])
             \/ /\ verifyResult' = "throws"
                /\ Responds([ NoTResponse EXCEPT
                                !.sent = TRUE, !.code = 500,
                                !.error = "VERIFICATION_ERROR" ])
       \/ /\ ~treq.initialized
          /\ Responds([ NoTResponse EXCEPT !.sent = TRUE, !.code = 500,
                                           !.error = "VERIFICATION_ERROR" ])
          /\ UNCHANGED << verifyCalls, verifyResult >>
    /\ UNCHANGED << outsideTreasury, tfn, treq, paymentPayload, settleCalls,
                    settlementResult >>

\* POST /settle of the facilitator router
ServerSettle ==
    /\ tfn = "server_settle" /\ tpc = "start"
    /\ \/ /\ treq.initialized
          /\ settleCalls' = settleCalls + 1
          /\ \/ \E result \in SettlementResults :
                   /\ settlementResult' = result
                   /\ IF result.success
                      THEN Responds([ NoTResponse EXCEPT
                                        !.sent = TRUE, !.code = 200,
                                        !.success = TRUE,
                                        !.paymentTransaction =
                                            result.transaction ])
                      ELSE Responds([ NoTResponse EXCEPT
                                        !.sent = TRUE, !.code = 500,
                                        !.error = "SETTLEMENT_FAILED" ])
             \/ /\ Responds([ NoTResponse EXCEPT
                                !.sent = TRUE, !.code = 500,
                                !.error = "SETTLEMENT_ERROR" ])
                /\ UNCHANGED settlementResult
       \/ /\ ~treq.initialized
          /\ Responds([ NoTResponse EXCEPT !.sent = TRUE, !.code = 500,
                                           !.error = "SETTLEMENT_ERROR" ])
          /\ UNCHANGED << settleCalls, settlementResult >>
    /\ UNCHANGED << outsideTreasury, tfn, treq, paymentPayload, verifyResult,
                    verifyCalls >>

\* no treasury-test run
TreasuryIdle ==
    /\ tfn = "none" /\ tpc = "idle"
    /\ treq = [ initialized |-> TRUE, paymentHeader |-> "", chain |-> "fuji" ]
    /\ paymentPayload = FALSE
    /\ verifyResult = "none"
    /\ verifyCalls = 0
    /\ settleCalls = 0
    /\ settlementResult = NoSettlement
    /\ tresponse = NoTResponse

----------------------------------------------------------------------------

\* no X-PAYMENT header on the request
NoHeader == ""

NoMeter == [ price |-> "", asset |-> "", chain |-> "" ]

\* the registry entry of a meter id
MeterOf(id) ==
    IF id = "payment_process"
    THEN [ price |-> "1", asset |-> "USDC", chain |-> "fuji" ]
    ELSE IF id = "payroll_execute"
    THEN [ price |-> "5", asset |-> "USDC", chain |-> "avalanche" ]
    ELSE NoMeter

NoContext == [ payer |-> "", meter |-> NoMeter, paymentHeader |-> "" ]

\* the gate before the request arrived
GateUnpaid ==
    [ state |-> "UNPAID", code |-> 0, accepts |-> NoMeter, error |-> "",
      x402 |-> NoContext ]

\* no gate in front of the run
GateIdle == gate = [ GateUnpaid EXCEPT !.state = "none" ]

\* no validation runs
ValidatorIdle ==
    /\ vfn = "none" /\ vpc = "idle"
    /\ headerValue = "" /\ meterId = ""
    /\ config = [ NODE_ENV |-> "development",
                  x402FacilitatorUrl |-> "https://facilitator.ultravioletadao.xyz",
                  x402AllowDemoToken |-> FALSE, payToAddress |-> TRUE ]
    /\ vresult = NoResult
    /\ facilitatorCalls = 0
    /\ facilitatorOutcome = "none"

\* no pipeline runs
PipelineIdle ==
    /\ mode = "none" /\ pc = "idle"
    /\ req = DemoReq /\ env = DemoEnv
    /\ payrollId = "null"
    /\ payroll = NoRow
    /\ payments = << >>
    /\ steps = NoSteps
    /\ errors = << >>
    /\ transactions = NoTransactions
    /\ railResult = NoRail
    /\ onchainSuccess = FALSE
    /\ thrown = ""
    /\ response = NoResponse
    /\ outcome = "running"
    /\ log = << >>
    /\ returned = [ request |-> << >>, execute |-> << >> ]

InitValidator ==
    /\ PipelineIdle
    /\ GateIdle
    /\ TreasuryIdle
    /\ ConcurrentIdle
    /\ MerchantIdle
    /\ AuthIdle
    /\ vfn \in {"header", "detailed", "server_validate"}
    /\ vpc = "start"
    /\ headerValue \in HeaderValues
    /\ meterId \in MeterIds
    /\ config \in Configs
    /\ vresult = NoResult
    /\ facilitatorCalls = 0
    /\ facilitatorOutcome = "none"

NextValidator ==
    \/ HeaderStart
    \/ HeaderFacilitator
    \/ DetailedStart
    \/ DetailedFacilitator
    \/ ServerValidateStart
    \/ ServerValidateVerify

SpecValidator == InitValidator /\ [][NextValidator]_vars

----------------------------------------------------------------------------
(* X402Gate: the middleware in front of a protected route *)

\* the bodies the downstream handler is admitted with
GateRequests == { DemoReq, [ DemoReq EXCEPT !.body = FALSE ] }

GateEnvs ==
    { DemoEnv, [ RAIL_SOURCE_ACCOUNT_ID |-> TRUE, RAIL_COUNTERPARTY_ID |-> TRUE ] }

\* variant of GateChallenge that always describes the payment_process meter
GateChallenge_FixedMeter ==
    /\ gate' = [ GateUnpaid EXCEPT !.state = "REJECTED", !.code = 402,
                                   !.accepts = MeterOf("payment_process"),
                                   !.error = "Payment Required" ]
    /\ pc' = "done"
    /\ UNCHANGED << vfn, vpc >>

\* the 402 challenge for a request without a payment proof
GateChallenge ==
    /\ gate' = [ GateUnpaid EXCEPT !.state = "REJECTED", !.code = 402,
                                   !.accepts = MeterOf(meterId),
                                   !.error = "Payment Required" ]
    /\ pc' = "done"
    /\ UNCHANGED << vfn, vpc >>

\* the gate receives the request: challenge, or hand the proof to the validator
GateRequest ==
    /\ mode = "gate" /\ pc = "gate"
    /\ IF headerValue = NoHeader
       THEN GateChallenge
       ELSE /\ vfn' \in {"header", "detailed"}
            /\ vpc' = "start"
            /\ pc' = "gate_validating"
            /\ gate' = [ gate EXCEPT !.state = "VALIDATING" ]
    /\ UNCHANGED << avars, bvars, cvars, tvars, mode, req, env, payrollId, payroll, payments, steps,
                    errors, transactions, railResult, onchainSuccess, thrown,
                    response, outcome, log, returned, headerValue, meterId,
                    config, vresult, facilitatorCalls, facilitatorOutcome >>

\* the verdict is valid: the handler runs with the payment context attached
GateAdmit ==
    /\ gate' = [ gate EXCEPT !.state = "ADMITTED",
                             !.x402 = [ payer |-> vresult.payer,
                                        meter |-> MeterOf(meterId),
                                        paymentHeader |-> headerValue ] ]
    /\ mode' = "handler"
    /\ pc' = "validate"

\* variant of GateReject that lets the handler run
GateReject_RunsHandler ==
    /\ gate' = [ gate EXCEPT !.state = "REJECTED", !.code = 402,
                             !.error = vresult.error ]
    /\ mode' = "handler"
    /\ pc' = "validate"

\* the verdict is invalid: 402 with the validator's error
GateReject ==
    /\ gate' = [ gate EXCEPT !.state = "REJECTED", !.code = 402,
                             !.error = vresult.error ]
    /\ pc' = "done"
    /\ UNCHANGED mode

\* the validator returned: admit or reject
GateVerdict ==
    /\ mode = "gate" /\ pc = "gate_validating"
    /\ vpc = "done"
    /\ IF vresult.valid THEN GateAdmit ELSE GateReject
    /\ UNCHANGED << avars, bvars, cvars, tvars, vvars, req, env, payrollId, payroll, payments, steps,
                    errors, transactions, railResult, onchainSuccess, thrown,
                    response, outcome, log, returned >>

InitGate ==
    /\ mode = "gate" /\ pc = "gate"
    /\ req \in GateRequests /\ env \in GateEnvs
    /\ payrollId = "null"
    /\ payroll = NoRow
    /\ payments = << >>
    /\ steps = NoSteps
    /\ errors = << >>
    /\ transactions = NoTransactions
    /\ railResult = NoRail
    /\ onchainSuccess = FALSE
    /\ thrown = ""
    /\ response = NoResponse
    /\ outcome = "running"
    /\ log = << >>
    /\ returned = [ request |-> << >>, execute |-> << >> ]
    /\ vfn = "none" /\ vpc = "idle"
    /\ headerValue \in HeaderValues \cup {NoHeader}
    /\ meterId \in MeterIds
    /\ config \in { c \in Configs : c.payToAddress }
    /\ vresult = NoResult
    /\ facilitatorCalls = 0
    /\ facilitatorOutcome = "none"
    /\ gate = GateUnpaid
    /\ TreasuryIdle
    /\ ConcurrentIdle
    /\ MerchantIdle
    /\ AuthIdle

NextGate ==
    \/ GateRequest
    \/ HeaderStart
    \/ HeaderFacilitator
    \/ DetailedStart
    \/ DetailedFacilitator
    \/ GateVerdict
    \/ Validate
    \/ CreatePayroll
    \/ CreatePayments
    \/ CheckTreasury
    \/ RequestOnchain
    \/ ExecuteOnchain
    \/ RailConfig
    \/ RailMarkPayroll
    \/ RailMarkPayments
    \/ RailCall
    \/ RailFinalPayroll
    \/ RailFinalPayments
    \/ ReadFinal
    \/ OuterCatch

SpecGate == InitGate /\ [][NextGate]_vars

InitTreasury ==
    /\ PipelineIdle
    /\ ValidatorIdle
    /\ GateIdle
    /\ tfn \in {"testContract", "server_verify", "server_settle"}
    /\ tpc = "start"
    /\ treq \in TreasuryRequests
    /\ paymentPayload = FALSE
    /\ verifyResult = "none"
    /\ verifyCalls = 0
    /\ settleCalls = 0
    /\ settlementResult = NoSettlement
    /\ tresponse = NoTResponse
    /\ ConcurrentIdle
    /\ MerchantIdle
    /\ AuthIdle

NextTreasury ==
    \/ TestContractStart
    \/ TestContractVerify
    \/ TestContractExecute
    \/ TestContractSettle
    \/ ServerVerify
    \/ ServerSettle

SpecTreasury == InitTreasury /\ [][NextTreasury]_vars

----------------------------------------------------------------------------
(* Two requests of POST /api/payment/process interleaved at their awaits *)

\* the handler's locals: what a request keeps while it waits
Locals ==
    [ mode |-> mode, pc |-> pc, req |-> req, env |-> env,
      payrollId |-> payrollId, steps |-> steps, errors |-> errors,
      transactions |-> transactions, railResult |-> railResult,
      onchainSuccess |-> onchainSuccess, thrown |-> thrown,
      response |-> response, outcome |-> outcome, log |-> log,
      returned |-> returned ]

\* most calls that may throw over the two requests together
MaxFailures == 1

Failures(l) == Cardinality({ i \in DOMAIN l : l[i].res = "throw" })

\* the rows once the scheduled request waits: its own are stored by its id
Flushed ==
    IF payrollId = "null" THEN db
    ELSE [ db EXCEPT ![payrollId] =
             [ payroll |-> payroll, payments |-> payments ] ]

NoRowPair == [ payroll |-> NoRow, payments |-> << >> ]

\* the row a request finds under its payroll id
RowOf(d, id) == IF id = "null" THEN NoRowPair ELSE d[id]

\* the rows left to the waiting request once the resumed one took its own
Taken(d, id) == IF id = "null" THEN d ELSE [ d EXCEPT ![id] = NoRowPair ]

\* the scheduled request waits at an await and the other one resumes
Switch ==
    /\ current \in {1, 2}
    /\ parked.pc # "done"
    /\ current' = 3 - current
    /\ db' = Taken(Flushed, parked.payrollId)
    /\ parked' = Locals
    /\ mode' = parked.mode
    /\ pc' = parked.pc
    /\ req' = parked.req
    /\ env' = parked.env
    /\ payrollId' = parked.payrollId
    /\ steps' = parked.steps
    /\ errors' = parked.errors
    /\ transactions' = parked.transactions
    /\ railResult' = parked.railResult
    /\ onchainSuccess' = parked.onchainSuccess
    /\ thrown' = parked.thrown
    /\ response' = parked.response
    /\ outcome' = parked.outcome
    /\ log' = parked.log
    /\ returned' = parked.returned
    /\ payroll' = RowOf(Flushed, parked.payrollId).payroll
    /\ payments' = RowOf(Flushed, parked.payrollId).payments
    /\ UNCHANGED << vvars, gvars, tvars, bvars, avars >>

\* a step of the scheduled request, within the failure bound
Within(step) ==
    /\ step
    /\ Failures(log') + Failures(parked.log) <= MaxFailures

ConcurrentRequests == { DemoReq }

ConcurrentEnvs ==
    { [ RAIL_SOURCE_ACCOUNT_ID |-> TRUE, RAIL_COUNTERPARTY_ID |-> TRUE ] }

InitConcurrent ==
    /\ mode = "handler" /\ pc = "validate"
    /\ req \in ConcurrentRequests /\ env \in ConcurrentEnvs
    /\ payrollId = "null"
    /\ payroll = NoRow
    /\ payments = << >>
    /\ steps = NoSteps
    /\ errors = << >>
    /\ transactions = NoTransactions
    /\ railResult = NoRail
    /\ onchainSuccess = FALSE
    /\ thrown = ""
    /\ response = NoResponse
    /\ outcome = "running"
    /\ log = << >>
    /\ returned = [ request |-> << >>, execute |-> << >> ]
    /\ ValidatorIdle
    /\ GateIdle
    /\ TreasuryIdle
    /\ current = 1
    /\ \E r \in ConcurrentRequests : parked = FreshLocals(r, env)
    /\ db = NoRows
    /\ MerchantIdle
    /\ AuthIdle

NextConcurrent ==
    \/ Switch
    \/ Within(Validate)
    \/ Within(CreatePayroll)
    \/ Within(CreatePayments)
    \/ Within(CheckTreasury)
    \/ Within(RequestOnchain)
    \/ Within(ExecuteOnchain)
    \/ Within(RailConfig)
    \/ Within(RailMarkPayroll)
    \/ Within(RailMarkPayments)
    \/ Within(RailCall)
    \/ Within(RailFinalPayroll)
    \/ Within(RailFinalPayments)
    \/ Within(ReadFinal)
    \/ Within(OuterCatch)

SpecConcurrent == InitConcurrent /\ [][NextConcurrent]_vars

----------------------------------------------------------------------------
(* confirmPayment and updateCompanyBalance, called concurrently *)

\* largest amount of a call, in token units
MaxAmount == 2

Amounts == 1..MaxAmount

\* what getTokenPrice may resolve to, in USD per token
Prices == {1, 2}

TxHashes == {"0xA", "0xB"}

\* the one intent that may exist, and one that does not
PaymentIntentIds == {"pmt_1", "pmt_unknown"}

\* the balance a company may hold before the calls
InitialBalances ==
    { NoBalance, [ exists |-> TRUE, balanceToken |-> 5, balanceUsd |-> 5 ] }

\* the statuses the stored intent may have before the calls
InitialPayments ==
    { [ exists |-> TRUE, status |-> "PENDING_X402", txHash |-> "",
        amountToken |-> 1 ],
      [ exists |-> TRUE, status |-> "CONFIRMED_ONCHAIN", txHash |-> "0xA",
        amountToken |-> 1 ],
      [ exists |-> TRUE, status |-> "FAILED", txHash |-> "",
        amountToken |-> 1 ] }

SetCall(c, r) == calls' = [ calls EXCEPT ![c] = r ]

\* the call ends with an exception
CallThrows(c, msg) ==
    SetCall(c, [ calls[c] EXCEPT !.pc = "done", !.result = "threw",
                                 !.error = msg ])

\* prisma.payment.findUnique({ where: { paymentIntentId } })
FindPayment(id) == IF id = "pmt_1" THEN bdb.payment ELSE NoPaymentRow

\* variant of ConfirmChecked that confirms again whatever the stored status
ConfirmChecked_NoStatusCheck(c, payment) ==
    IF ~payment.exists
    THEN CallThrows(c, "not found")
    ELSE SetCall(c, [ calls[c] EXCEPT !.pc = "c_price",
                                      !.payment = payment ])

\* confirmPayment throws after it read the payment
Rejects(c, payment, msg) ==
    SetCall(c, [ calls[c] EXCEPT !.pc = "done", !.result = "threw",
                                 !.error = msg, !.payment = payment ])

\* confirmPayment between its first await and its second
ConfirmChecked(c, payment) ==
    IF ~payment.exists
    THEN Rejects(c, payment, "not found")
    ELSE IF payment.status # "PENDING_X402"
    THEN IF payment.status = "CONFIRMED_ONCHAIN"
         THEN IF payment.txHash = calls[c].txHash
              THEN SetCall(c, [ calls[c] EXCEPT !.pc = "done",
                                                !.result = "returned",
                                                !.payment = payment,
                                                !.returned = payment ])
              ELSE Rejects(c, payment,
                           "already confirmed with different txHash")
         ELSE Rejects(c, payment, "invalid status")
    ELSE SetCall(c, [ calls[c] EXCEPT !.pc = "c_price", !.payment = payment ])

\* confirmPayment: await prisma.payment.findUnique and the status checks
ConfirmFind(c) ==
    /\ calls[c].fn = "confirmPayment" /\ calls[c].pc = "c_find"
    /\ \/ ConfirmChecked(c, FindPayment(calls[c].paymentIntentId))
       \/ CallThrows(c, "db_error")
    /\ UNCHANGED << outsideMerchant, bdb >>

\* confirmPayment: await getTokenPrice(token)
ConfirmPrice(c) ==
    /\ calls[c].fn = "confirmPayment" /\ calls[c].pc = "c_price"
    /\ \/ \E usdPrice \in Prices :
             SetCall(c, [ calls[c] EXCEPT !.pc = "c_update",
                                          !.usdPrice = usdPrice ])
       \/ CallThrows(c, "price_error")
    /\ UNCHANGED << outsideMerchant, bdb >>

\* confirmPayment: await prisma.payment.update, then updateCompanyBalance
ConfirmUpdate(c) ==
    /\ calls[c].fn = "confirmPayment" /\ calls[c].pc = "c_update"
    /\ \/ /\ bdb' = [ bdb EXCEPT !.payment =
                        [ exists |-> TRUE, status |-> "CONFIRMED_ONCHAIN",
                          txHash |-> calls[c].txHash,
                          amountToken |-> calls[c].amount ] ]
          /\ SetCall(c, [ calls[c] EXCEPT !.pc = "b_find",
                                          !.writes = @ + 1,
                                          !.returned = bdb'.payment ])
       \/ CallThrows(c, "db_error") /\ UNCHANGED bdb
    /\ UNCHANGED outsideMerchant

\* updateCompanyBalance: await prisma.companyBalance.findUnique
BalanceFind(c) ==
    /\ calls[c].pc = "b_find"
    /\ \/ SetCall(c, [ calls[c] EXCEPT !.pc = "b_upsert",
                                       !.existing = bdb.balance ])
       \/ CallThrows(c, "db_error")
    /\ UNCHANGED << outsideMerchant, bdb >>

\* newBalanceToken / newBalanceUsd: the balance read plus the amounts
NewBalance(existing, amountToken, amountUsd) ==
    [ exists |-> TRUE,
      balanceToken |-> IF existing.exists
                       THEN existing.balanceToken + amountToken
                       ELSE amountToken,
      balanceUsd |-> IF existing.exists
                     THEN existing.balanceUsd + amountUsd
                     ELSE amountUsd ]

\* updateCompanyBalance: await prisma.companyBalance.upsert and the return
BalanceUpsert(c) ==
    /\ calls[c].pc = "b_upsert"
    /\ \/ /\ bdb' = [ bdb EXCEPT !.balance =
                        NewBalance(calls[c].existing, calls[c].amount,
                                   calls[c].amount * calls[c].usdPrice) ]
          /\ SetCall(c, [ calls[c] EXCEPT !.pc = "done",
                                          !.writes = @ + 1,
                                          !.result = "returned" ])
       \/ CallThrows(c, "db_error") /\ UNCHANGED bdb
    /\ UNCHANGED outsideMerchant

\* a call as it is made
NewCall(fn, id, txHash, amount, usdPrice) ==
    [ NoCall EXCEPT !.fn = fn,
                    !.pc = IF fn = "confirmPayment" THEN "c_find" ELSE "b_find",
                    !.paymentIntentId = id, !.txHash = txHash,
                    !.amount = amount, !.usdPrice = usdPrice ]

\* the calls that can be made: confirmPayment fetches the price itself
NewCalls ==
    { NewCall("confirmPayment", id, tx, a, 0) :
        id \in PaymentIntentIds, tx \in TxHashes, a \in Amounts }
      \cup { NewCall("updateCompanyBalance", "", "", a, 1) : a \in Amounts }

InitMerchant ==
    /\ PipelineIdle
    /\ ValidatorIdle
    /\ GateIdle
    /\ TreasuryIdle
    /\ ConcurrentIdle
    /\ AuthIdle
    /\ \E p \in InitialPayments, b \in InitialBalances :
          bdb = [ payment |-> p, balance |-> b, initial |-> b ]
    /\ calls \in [ Callers -> NewCalls ]
    /\ \A c, d \in Callers : calls[c].fn = calls[d].fn

NextMerchant ==
    \/ \E c \in Callers : ConfirmFind(c)
    \/ \E c \in Callers : ConfirmPrice(c)
    \/ \E c \in Callers : ConfirmUpdate(c)
    \/ \E c \in Callers : BalanceFind(c)
    \/ \E c \in Callers : BalanceUpsert(c)

SpecMerchant == InitMerchant /\ [][NextMerchant]_vars

----------------------------------------------------------------------------

----------------------------------------------------------------------------
(* useProvideAuth (frontend auth hook) *)

\* tokens the API issues
Tokens == {"t1", "t2"}

\* what localStorage may hold when the hook mounts
StoredTokens == {NoToken, "t1", "expired"}

\* isTokenValid() of use-session.js for the stored token
IsTokenValid(token) == token \in Tokens

SetACall(i, r) == acalls' = [ acalls EXCEPT ![i] = r ]

\* the call a user action or an event listener makes next takes slot i
NextSlot(i) ==
    /\ acalls[i].fn = "none"
    /\ \A j \in CallIds : j < i => acalls[j].fn # "none"

\* variant of CheckAuthFinally that leaves isCheckingRef set
CheckAuthFinally_KeepsFlag(a, skipLoading) ==
    [ a EXCEPT !.isLoading = IF skipLoading THEN @ ELSE FALSE ]

\* the finally block of checkAuth
CheckAuthFinally(a, skipLoading) ==
    [ a EXCEPT !.isLoading = IF skipLoading THEN @ ELSE FALSE,
               !.isChecking = FALSE ]

\* checkAuth up to its await: the isCheckingRef guard, the token test and
\* the early return when there is no valid token
CheckAuthStart(i, skipLoading) ==
    /\ NextSlot(i)
    /\ IF auth.isChecking
       THEN /\ SetACall(i, [ fn |-> "checkAuth", pc |-> "done",
                             skipLoading |-> skipLoading ])
            /\ UNCHANGED auth
       ELSE LET entered ==
                    [ auth EXCEPT !.isChecking = TRUE,
                                  !.isLoading = IF skipLoading THEN @ ELSE TRUE,
                                  !.error = "null" ]
            IN  IF auth.token = NoToken \/ ~IsTokenValid(auth.token)
                THEN /\ auth' = [ entered EXCEPT
                                    !.isLoading = IF skipLoading THEN @
                                                  ELSE FALSE,
                                    !.user = "null", !.company = "null",
                                    !.isChecking = FALSE ]
                     /\ SetACall(i, [ fn |-> "checkAuth", pc |-> "done",
                                      skipLoading |-> skipLoading ])
                ELSE /\ auth' = entered
                     /\ SetACall(i, [ fn |-> "checkAuth", pc |-> "await",
                                      skipLoading |-> skipLoading ])
    /\ loggedOut' = FALSE
    /\ UNCHANGED outsideAuth

\* checkAuth after await getCurrentUser(): success, rejected token or a
\* thrown error, then the finally block
CheckAuthResolve(i) ==
    /\ acalls[i].fn = "checkAuth" /\ acalls[i].pc = "await"
    /\ \/ \E token \in Tokens :
             auth' = CheckAuthFinally(
                        [ auth EXCEPT !.user = "u1", !.company = "c1",
                                      !.token = IF @ # token THEN token
                                                ELSE @ ],
                        acalls[i].skipLoading)
       \/ auth' = CheckAuthFinally(
                      [ auth EXCEPT !.token = NoToken, !.user = "null",
                                    !.company = "null" ],
                      acalls[i].skipLoading)
    /\ SetACall(i, [ acalls[i] EXCEPT !.pc = "done" ])
    /\ UNCHANGED << outsideAuth, loggedOut >>

\* result.success of handleLogin / handleSignup: setToken, setUser, setCompany
SignedIn(a, token) ==
    [ a EXCEPT !.token = token, !.user = "u1", !.company = "c1",
               !.isLoading = FALSE ]

\* an error result or a thrown error of handleLogin / handleSignup
SignRefused(a) == [ a EXCEPT !.error = "error", !.isLoading = FALSE ]

\* handleLogin up to await login(data)
HandleLoginStart(i) ==
    /\ NextSlot(i)
    /\ auth' = [ auth EXCEPT !.isLoading = TRUE, !.error = "null" ]
    /\ SetACall(i, [ fn |-> "login", pc |-> "await", skipLoading |-> FALSE ])
    /\ loggedOut' = FALSE
    /\ UNCHANGED outsideAuth

\* handleLogin after the await
HandleLoginResolve(i) ==
    /\ acalls[i].fn = "login" /\ acalls[i].pc = "await"
    /\ \/ \E token \in Tokens : auth' = SignedIn(auth, token)
       \/ auth' = SignRefused(auth)
    /\ SetACall(i, [ acalls[i] EXCEPT !.pc = "done" ])
    /\ UNCHANGED << outsideAuth, loggedOut >>

\* handleSignup up to await signup(data)
HandleSignupStart(i) ==
    /\ NextSlot(i)
    /\ auth' = [ auth EXCEPT !.isLoading = TRUE, !.error = "null" ]
    /\ SetACall(i, [ fn |-> "signup", pc |-> "await", skipLoading |-> FALSE ])
    /\ loggedOut' = FALSE
    /\ UNCHANGED outsideAuth

\* handleSignup after the await
HandleSignupResolve(i) ==
    /\ acalls[i].fn = "signup" /\ acalls[i].pc = "await"
    /\ \/ \E token \in Tokens : auth' = SignedIn(auth, token)
       \/ auth' = SignRefused(auth)
    /\ SetACall(i, [ acalls[i] EXCEPT !.pc = "done" ])
    /\ UNCHANGED << outsideAuth, loggedOut >>

HandleLogout ==
    /\ auth' = [ auth EXCEPT !.token = NoToken, !.user = "null",
                             !.company = "null", !.error = "null" ]
    /\ loggedOut' = TRUE
    /\ UNCHANGED << outsideAuth, acalls >>

InitAuth ==
    /\ PipelineIdle
    /\ ValidatorIdle
    /\ GateIdle
    /\ TreasuryIdle
    /\ ConcurrentIdle
    /\ MerchantIdle
    /\ \E token \in StoredTokens : auth = [ FreshAuth EXCEPT !.token = token ]
    /\ acalls = [ i \in CallIds |-> NoAuthCall ]
    /\ loggedOut = FALSE

NextAuth ==
    \/ \E i \in CallIds, skipLoading \in BOOLEAN : CheckAuthStart(i, skipLoading)
    \/ \E i \in CallIds : CheckAuthResolve(i)
    \/ \E i \in CallIds : HandleLoginStart(i)
    \/ \E i \in CallIds : HandleLoginResolve(i)
    \/ \E i \in CallIds : HandleSignupStart(i)
    \/ \E i \in CallIds : HandleSignupResolve(i)
    \/ HandleLogout

SpecAuth == InitAuth /\ [][NextAuth]_vars

\* every awaited getCurrentUser() call eventually returns or throws
FairSpecAuth ==
    SpecAuth /\ \A i \in CallIds : WF_vars(CheckAuthResolve(i))

----------------------------------------------------------------------------

Init ==
    /\ mode \in {"handler", "demo"}
    /\ IF mode = "handler"
       THEN req \in Requests /\ env \in Envs /\ pc = "validate"
       ELSE req = DemoReq /\ env = DemoEnv /\ pc = "d_create_payroll"
    /\ payrollId = "null"
    /\ payroll = NoRow
    /\ payments = << >>
    /\ steps = NoSteps
    /\ errors = << >>
    /\ transactions = NoTransactions
    /\ railResult = NoRail
    /\ onchainSuccess = FALSE
    /\ thrown = ""
    /\ response = NoResponse
    /\ outcome = "running"
    /\ log = << >>
    /\ returned = [ request |-> << >>, execute |-> << >> ]
    /\ ValidatorIdle
    /\ GateIdle
    /\ TreasuryIdle
    /\ ConcurrentIdle
    /\ MerchantIdle
    /\ AuthIdle

Next ==
    \/ Validate
    \/ CreatePayroll
    \/ CreatePayments
    \/ CheckTreasury
    \/ RequestOnchain
    \/ ExecuteOnchain
    \/ RailConfig
    \/ RailMarkPayroll
    \/ RailMarkPayments
    \/ RailCall
    \/ RailFinalPayroll
    \/ RailFinalPayments
    \/ ReadFinal
    \/ OuterCatch
    \/ DemoCreatePayroll
    \/ DemoCreatePayments
    \/ DemoCheckTreasury
    \/ DemoRequestOnchain
    \/ DemoExecuteOnchain
    \/ DemoOnchainPayroll
    \/ DemoOnchainPayments
    \/ DemoRailMarkPayroll
    \/ DemoRailMarkPayments
    \/ DemoRailCall
    \/ DemoFinalPayroll
    \/ DemoFinalPayments
    \/ DemoReturn

Spec == Init /\ [][Next]_vars

\* every awaited call of the run eventually returns or throws
FairSpec == Spec /\ WF_vars(Next)

\* executePayrollDemo alone, as either of its two definitions
InitDemo ==
    /\ mode \in DemoModes
    /\ req = DemoReq /\ env = DemoEnv /\ pc = "d_create_payroll"
    /\ payrollId = "null"
    /\ payroll = NoRow
    /\ payments = << >>
    /\ steps = NoSteps
    /\ errors = << >>
    /\ transactions = NoTransactions
    /\ railResult = NoRail
    /\ onchainSuccess = FALSE
    /\ thrown = ""
    /\ response = NoResponse
    /\ outcome = "running"
    /\ log = << >>
    /\ returned = [ request |-> << >>, execute |-> << >> ]
    /\ ValidatorIdle
    /\ GateIdle
    /\ TreasuryIdle
    /\ ConcurrentIdle
    /\ MerchantIdle
    /\ AuthIdle

NextDemo ==
    \/ DemoCreatePayroll
    \/ DemoCreatePayments
    \/ DemoCheckTreasury
    \/ DemoRequestOnchain
    \/ DemoExecuteOnchain
    \/ DemoOnchainPayroll
    \/ DemoOnchainPayments
    \/ DemoRailMarkPayroll
    \/ DemoRailMarkPayments
    \/ DemoRailCall
    \/ DemoFinalPayroll
    \/ DemoFinalPayments
    \/ DemoReturn

SpecDemo == InitDemo /\ [][NextDemo]_vars

----------------------------------------------------------------------------
(* Properties *)

\* on-chain execution succeeded in this run
OnchainExecuted ==
    IF mode = "handler" THEN steps.onchain_executed ELSE onchainSuccess

LogHas(op, arg, res) == \E i \in DOMAIN log : log[i] = Event(op, arg, res)

AllPayments(status) == \A i \in DOMAIN payments : payments[i] = status

\* neither the request nor the environment names both rail accounts
RailNotConfigured ==
    \/ ~req.source_account_id /\ ~env.RAIL_SOURCE_ACCOUNT_ID
    \/ ~req.counterparty_id /\ ~env.RAIL_COUNTERPARTY_ID

\* C1: at the end of a run in which on-chain execution succeeded, the
\* Payroll status is ONCHAIN_PAID or PAID.
C1_OnchainSuccessPrecedence ==
    (pc = "done" /\ payroll.exists /\ OnchainExecuted)
        => payroll.status \in {ONCHAIN_PAID, PAID}

\* C2: at the end of a run every Payment row has the status of its Payroll.
C2_PaymentsMirrorPayroll ==
    (pc = "done" /\ payroll.exists) => AllPayments(payroll.status)

\* the precedence table of the rail result and the on-chain flag
PrecedenceTable(rail, onchain) ==
    CASE rail = "PAID" -> PAID
      [] rail = "FAILED" /\ onchain -> ONCHAIN_PAID
      [] rail = "FAILED" /\ ~onchain -> FAILED
      [] rail \notin {"PAID", "FAILED"} /\ onchain -> ONCHAIN_PAID
      [] rail \notin {"PAID", "FAILED"} /\ ~onchain -> RAIL_PROCESSING

C4_RequestFailureAborts ==
    (pc = "done" /\ LogHas("requestPayrollPayments", "", "throw"))
        => /\ payroll.status = FAILED
           /\ Occurs("executePayrollPayments") = {}
           /\ Occurs("createRailPayment") = {}

\* C5: executePayrollPayments is called only after requestPayrollPayments
\* succeeded earlier in the run.
C5_ExecuteOnlyAfterRequest ==
    \A i \in Occurs("executePayrollPayments") :
        \E j \in 1..(i - 1) : log[j] = Event("requestPayrollPayments", "", "ok")

ExecuteThrew == LogHas("executePayrollPayments", "", "throw")

\* C6: when executePayrollPayments throws, the run goes on to the rail
\* step, the on-chain flag stays false for the rest of the run and (handler)
\* exactly one error is recorded under step onchain_executed.
C6_ExecuteFailureContinues ==
    /\ [](ExecuteThrew =>
            /\ ~OnchainExecuted
            /\ mode = "handler" =>
                  /\ Cardinality(StepErrors("onchain_executed")) = 1
                  /\ ~transactions.hasExecute)
    /\ [][(ExecuteThrew' /\ ~ExecuteThrew)
            => (pc' \in {"rail_config", "d_rail_call"} /\ outcome' = "running")]_vars

C6_Witness ==
    /\ mode = "handler" /\ ExecuteThrew /\ pc = "rail_call"
    /\ StepErrors("onchain_executed") # {}

\* C7: when on-chain execution succeeded, the Payroll and all its Payments
\* are at ONCHAIN_PAID when the rail step begins.
C7_OnchainPaidBeforeRail ==
    (pc \in {"rail_config", "d_rail_mark_payroll"} /\ OnchainExecuted)
        => (payroll.status = ONCHAIN_PAID /\ AllPayments(ONCHAIN_PAID))

\* C8: a RAIL_PROCESSING write precedes the call of createRailPayment exactly
\* when on-chain execution succeeded.
C8_RailProcessingOnlyAfterOnchain ==
    \A i \in Occurs("createRailPayment") :
        (\E j \in 1..(i - 1) :
            log[j].op = "payroll.update" /\ log[j].arg = RAIL_PROCESSING)
          <=> OnchainExecuted

\* the handler is past its rail step
PastRailStep ==
    mode = "handler" /\ Occurs("executePayrollPayments") # {}
        /\ pc \in {"read_final", "catch", "done"}

\* C9: with the rail accounts not configured the rail step is skipped:
\* createRailPayment is never called, the step changes no Payroll or Payment
\* row, rail_processed stays false and exactly one error with step
\* rail_processed is recorded.
C9_RailSkippedWhenNotConfigured ==
    /\ []((mode = "handler" /\ RailNotConfigured) =>
            /\ Occurs("createRailPayment") = {}
            /\ Occurs("payments.update") = {}
            /\ \A i \in Occurs("payroll.update") : pc = "done" /\ i = Len(log)
            /\ ~steps.rail_processed
            /\ ~railResult.has
            /\ PastRailStep => Cardinality(StepErrors("rail_processed")) = 1)
    /\ [][(mode = "handler" /\ RailNotConfigured /\ pc = "rail_config")
            => /\ payroll' = payroll /\ payments' = payments /\ log' = log
               /\ pc' = "read_final"]_vars

C9_Witness ==
    /\ mode = "handler" /\ RailNotConfigured /\ pc = "read_final"
    /\ steps.onchain_executed /\ StepErrors("rail_processed") # {}

\* C10: a 200 response of a run with on-chain execution succeeded and the
\* rail accounts not configured reports status ONCHAIN_PAID, success = true
\* and one error for step rail_processed.
C10_ScenarioC ==
    (mode = "handler" /\ response.code = 200 /\ steps.onchain_executed
          /\ RailNotConfigured)
        => /\ response.status = ONCHAIN_PAID
           /\ response.success
           /\ "errors" \in response.fields
           /\ Cardinality({ i \in DOMAIN response.errors :
                              response.errors[i].step = "rail_processed" }) = 1

\* every call and write made so far returned
NoThrow == \A i \in DOMAIN log : log[i].res = "ok"

AllSteps ==
    [ payroll_created |-> TRUE, payments_created |-> TRUE,
      treasury_checked |-> TRUE, onchain_requested |-> TRUE,
      onchain_executed |-> TRUE, rail_processed |-> TRUE ]

\* C11: a handler run in which every call succeeded and the rail returned
\* PAID answers 200 with status PAID, all six step flags true, success =
\* true and exactly the hash lists the two gateway calls returned.
C11_ScenarioA ==
    (mode = "handler" /\ pc = "done" /\ NoThrow
          /\ LogHas("createRailPayment", "PAID", "ok"))
        => /\ response.code = 200
           /\ response.status = PAID
           /\ payroll.status = PAID /\ AllPayments(PAID)
           /\ response.steps = AllSteps
           /\ response.success
           /\ "transactions" \in response.fields
           /\ response.transactions.hasRequest
           /\ response.transactions.request_tx_hashes = returned.request
           /\ response.transactions.hasExecute
           /\ response.transactions.execute_tx_hashes = returned.execute

C11_Witness ==
    /\ mode = "handler" /\ pc = "done" /\ NoThrow
    /\ LogHas("createRailPayment", "PAID", "ok")
    /\ returned.request = <<"0xAAA">> /\ returned.execute = <<"0xBBB">>
    /\ response.status = PAID

\* C12: an exception that reaches the outer handler after the Payroll was
\* created makes it attempt the FAILED write; whether or not that write
\* succeeds, a 500 response is sent carrying the payroll id, the step map
\* and every error accumulated so far.
C12_OuterCatchResponds ==
    /\ []((mode = "handler" /\ response.code = 500 /\ payrollId # "null") =>
            /\ Len(log) > 0
            /\ log[Len(log)].op = "payroll.update"
            /\ log[Len(log)].arg = FAILED
            /\ log[Len(log)].res = "ok" => payroll.status = FAILED
            /\ {"payrollId", "steps", "errors"} \subseteq response.fields
            /\ response.payrollId = payrollId
            /\ response.steps = steps
            /\ \A i \in DOMAIN errors :
                  \E j \in DOMAIN response.errors :
                      response.errors[j] = errors[i]
            /\ ~response.success)
    /\ [][pc = "catch"
            => (pc' = "done" /\ response'.code = 500
                  /\ outcome' = "responded")]_vars

C12_Witness ==
    /\ mode = "handler" /\ response.code = 500 /\ payrollId = "p1"
    /\ log[Len(log)] = Event("payroll.update", FAILED, "throw")
    /\ Len(errors) > 0

\* a body that misses a required part or has no positive amount
InvalidRequest ==
    \/ ~req.body
    \/ ~req.customer \/ ~req.payment
    \/ ~req.first_name \/ ~req.last_name
    \/ ~req.hasAmount \/ req.amount <= 0

\* C13: an invalid request is answered 400 and the run never creates a row
\* or makes a call.
C13_InvalidRequestRejected ==
    (mode = "handler" /\ InvalidRequest)
        => /\ log = << >>
           /\ ~payroll.exists /\ payments = << >>
           /\ pc \in {"validate", "done"}
           /\ pc = "done" => (response.code = 400 /\ ~response.success)

C13_Witness ==
    /\ mode = "handler" /\ pc = "done" /\ response.code = 400
    /\ req.body /\ req.customer /\ req.payment
    /\ req.first_name /\ req.last_name /\ req.hasAmount /\ req.amount = -1

CreationFailed ==
    \/ LogHas("payroll.create", PENDING, "throw")
    \/ LogHas("createManyPayments", PENDING, "throw")

ExternalCalls ==
    Occurs("checkTreasuryBalance") \cup Occurs("requestPayrollPayments")
        \cup Occurs("executePayrollPayments") \cup Occurs("createRailPayment")

\* C14 as stated: after a failed creation the run makes no external call,
\* answers with an error and leaves no Payroll row without Payment rows.
C14_NoPartialState ==
    (mode = "handler" /\ pc = "done" /\ CreationFailed)
        => /\ ExternalCalls = {}
           /\ response.code = 500
           /\ ~(payroll.exists /\ payments = << >>)

\* C14 as amended: after a failed creation the run makes no external call
\* and answers 500; a failed Payroll creation leaves no row; a failed
\* Payment creation leaves the Payroll row without Payment rows, at FAILED
\* when the outer handler's write succeeded and at PENDING otherwise.
C14_CreationFailureAborts ==
    (mode = "handler" /\ CreationFailed)
        => /\ ExternalCalls = {}
           /\ pc \in {"catch", "done"}
           /\ payments = << >>
           /\ pc = "done" => (response.code = 500 /\ ~response.success)
           /\ LogHas("payroll.create", PENDING, "throw") => ~payroll.exists
           /\ LogHas("createManyPayments", PENDING, "throw") =>
                 /\ payroll.exists
                 /\ pc = "done" =>
                       payroll.status =
                          IF log[Len(log)].res = "ok" THEN FAILED ELSE PENDING

C14_Witness ==
    /\ mode = "handler" /\ pc = "done"
    /\ LogHas("createManyPayments", PENDING, "throw")
    /\ payroll.exists /\ payroll.status = FAILED /\ payments = << >>

TreasuryThrew == LogHas("checkTreasuryBalance", "", "throw")

RequestAttempted == Occurs("requestPayrollPayments") # {}

\* C15: the treasury check never aborts the run: whatever it returns or
\* throws, the next step is the on-chain request, which is then attempted;
\* after a throw treasury_checked stays false and one error is recorded.
C15_TreasuryCheckNeverAborts ==
    /\ [](TreasuryThrew =>
            /\ mode = "handler" =>
                  /\ ~steps.treasury_checked
                  /\ Cardinality(StepErrors("treasury_checked")) = 1
            /\ pc \notin {"request", "d_request"}
                  => Occurs("requestPayrollPayments") # {})
    /\ [][(pc \in {"treasury", "d_treasury"})
            => (pc' \in {"request", "d_request"} /\ outcome' = "running")]_vars
    /\ [][(pc \in {"request", "d_request"}) => RequestAttempted']_vars

C15_Witness ==
    /\ mode = "handler" /\ TreasuryThrew
    /\ LogHas("requestPayrollPayments", "", "ok")
    /\ ~steps.treasury_checked

FailedWrites ==
    { i \in DOMAIN log : log[i].op = "payroll.update" /\ log[i].arg = FAILED }

C17_EveryResponseHasStepsAndErrors ==
    response.code # 0 => {"steps", "errors"} \subseteq response.fields

\* C17 as amended: every 200 and 500 response carries the step map; a 500
\* response always carries a non-empty errors array; a 200 response carries
\* the errors array exactly when at least one error was recorded; a 400
\* response carries neither.
C17_ResponseStepsAndErrors ==
    /\ response.code = 400 => response.fields \cap {"steps", "errors"} = {}
    /\ response.code \in {200, 500} =>
          ("steps" \in response.fields /\ response.steps = steps)
    /\ response.code = 500 =>
          ("errors" \in response.fields /\ Len(response.errors) > 0)
    /\ response.code = 200 =>
          /\ "errors" \in response.fields <=> Len(errors) > 0
          /\ response.errors = errors

C17_Witness ==
    /\ response.code = 200 /\ "errors" \notin response.fields
    /\ "steps" \in response.fields

\* the bypass policy: any of non-production, mock facilitator, allow-demo flag
BypassEnabled ==
    \/ config.NODE_ENV # "production"
    \/ config.x402FacilitatorUrl \in MockUrls
    \/ config.x402AllowDemoToken

ValidatorFns == {"header", "detailed"}

\* C18: with the bypass enabled, validateXPaymentHeader and
\* validatePaymentDetailed return valid for the demo token, whatever the
\* meter id.
C18_BypassTokenValid ==
    (vfn \in ValidatorFns /\ headerValue = DEMO_TOKEN /\ BypassEnabled
          /\ vresult.done)
        => vresult.valid

\* C19: with the bypass enabled, a validation of the demo token never calls
\* validateWithFacilitator.
C19_BypassBeforeNetwork ==
    (vfn \in ValidatorFns /\ headerValue = DEMO_TOKEN /\ BypassEnabled)
        => facilitatorCalls = 0

\* C20: for a meter id that is not registered and no bypass condition
\* holding, validation makes no facilitator call and returns invalid, with
\* error METER_NOT_FOUND where the result carries an error.
C20_UnknownMeterRejected ==
    (vfn # "none" /\ meterId \notin KnownMeters /\ ~BypassEnabled)
        => /\ facilitatorCalls = 0
           /\ vpc \in {"start", "done"}
           /\ vresult.done =>
                 /\ ~vresult.valid
                 /\ vfn = "detailed" => vresult.error = "METER_NOT_FOUND"
                 /\ vfn = "server_validate" =>
                       (vresult.code = 400 /\ vresult.error = "METER_NOT_FOUND")

C20_Witness ==
    /\ vfn = "detailed" /\ vresult.done /\ ~BypassEnabled
    /\ meterId = "unknown_meter" /\ headerValue = DEMO_TOKEN
    /\ vresult.error = "METER_NOT_FOUND"

FacilitatorFailed == facilitatorOutcome \in {"invalid", "throws"}

\* C21: after a facilitator call that threw or reported the proof invalid,
\* the validator returns valid only for the demo token with the bypass
\* allowed; with the bypass disabled it returns invalid.
C21_DegradeGatedByBypass ==
    (vfn \in ValidatorFns /\ vresult.done /\ FacilitatorFailed)
        => (vresult.valid => (headerValue = DEMO_TOKEN /\ BypassEnabled))

\* the downstream handler has not run and no row exists
HandlerNeverRan ==
    /\ mode = "gate"
    /\ pc \in {"gate", "gate_validating", "done"}
    /\ payroll = NoRow /\ payments = << >> /\ payrollId = "null"
    /\ steps = NoSteps /\ log = << >> /\ response = NoResponse

GateAnswered == gate.state \in {"ADMITTED", "REJECTED"}

\* C22: a request without a payment-proof header is answered 402 with the
\* price, asset and chain of the route's meter, and the handler does not run.
C22_MissingHeaderChallenged ==
    (gate.state # "none" /\ headerValue = NoHeader)
        => /\ HandlerNeverRan
           /\ vfn = "none" /\ facilitatorCalls = 0
           /\ GateAnswered =>
                 /\ gate.state = "REJECTED" /\ gate.code = 402
                 /\ meterId = "payment_process" =>
                       gate.accepts = [ price |-> "1", asset |-> "USDC",
                                        chain |-> "fuji" ]
                 /\ meterId = "payroll_execute" =>
                       gate.accepts = [ price |-> "5", asset |-> "USDC",
                                        chain |-> "avalanche" ]

C22_Witness ==
    /\ headerValue = NoHeader /\ meterId = "payroll_execute"
    /\ gate.state = "REJECTED" /\ gate.code = 402
    /\ gate.accepts.price = "5"

\* C23: a request whose proof is missing or fails validation is rejected
\* with 402, the handler never runs and no Payroll or Payment row is created.
C23_InvalidProofRejectedAtGate ==
    (gate.state # "none"
       /\ (headerValue = NoHeader \/ (vresult.done /\ ~vresult.valid)))
        => /\ HandlerNeverRan
           /\ GateAnswered => (gate.state = "REJECTED" /\ gate.code = 402)

C23_Witness ==
    /\ gate.state = "REJECTED" /\ gate.code = 402
    /\ headerValue # NoHeader /\ meterId = "unknown_meter"
    /\ vresult.done /\ ~vresult.valid
    /\ HandlerNeverRan

\* C24: one testContract request calls settlePayment at most once.
C24_SettleAtMostOnce ==
    tfn = "testContract" => settleCalls <= 1

C24_Witness ==
    /\ tfn = "testContract" /\ tpc = "done"
    /\ settleCalls = 1
    /\ settlementResult.has /\ ~settlementResult.success

\* C25: testContract settles only a payload that its verification call
\* reported valid before, and neither it nor POST /settle verifies again
\* when settling.
C25_SettleOnlyAfterValidVerify ==
    /\ (tfn = "testContract" /\ (tpc = "settle" \/ settleCalls > 0))
          => (paymentPayload /\ verifyResult = "valid" /\ verifyCalls = 1)
    /\ tfn = "server_settle" => (verifyCalls = 0 /\ verifyResult = "none")

C25_Witness ==
    /\ tfn = "testContract" /\ settleCalls = 1
    /\ settlementResult.success /\ verifyResult = "valid"
    /\ tresponse.paymentTransaction = "0xSETTLED"

\* C26: when settlePayment returns success = false, the caller receives no
\* success response.
C26_SettlementFailureBlocks ==
    (tfn = "testContract" /\ tresponse.sent
       /\ settlementResult.has /\ ~settlementResult.success)
        => ~(tresponse.code = 200 /\ tresponse.success)

\* the successful writes of Payroll.status, in order
StatusWrites ==
    SelectSeq(log, LAMBDA e : /\ e.op \in {"payroll.create", "payroll.update"}
                              /\ e.res = "ok")

\* position of a status in the declared order
StatusRank(s) ==
    CASE s = PENDING -> 1
      [] s = ONCHAIN_REQUESTED -> 2
      [] s = ONCHAIN_PAID -> 3
      [] s = RAIL_PROCESSING -> 4
      [] s = PAID -> 5
      [] OTHER -> 0

\* a write that takes the Payroll from status a to status b
StatusStepAllowed(a, b) ==
    /\ a \notin {PAID, FAILED}
    /\ b # FAILED => StatusRank(b) >= StatusRank(a)
    /\ ~(a = PENDING /\ b = RAIL_PROCESSING)

\* C28: every write of Payroll.status follows the declared order: FAILED is
\* entered only from a non-terminal status, nothing is written after PAID,
\* no write goes back, and RAIL_PROCESSING never follows PENDING directly.
C28_StatusWritesFollowStateMachine ==
    \A i \in 1..(Len(StatusWrites) - 1) :
        StatusStepAllowed(StatusWrites[i].arg, StatusWrites[i + 1].arg)

\* C28, the part a gateway that persisted statuses could not repair: the
\* Payroll is never FAILED after PAID was written.
C28_PaidIsTerminal ==
    \A i \in 1..(Len(StatusWrites) - 1) : StatusWrites[i].arg # PAID

\* the last element of a sequence of events, as its arg ("" when empty)
LastArg(es) == IF es = << >> THEN "" ELSE es[Len(es)].arg

\* the Payroll status a request's own successful writes left
OwnPayrollStatus(l) ==
    LastArg(SelectSeq(l, LAMBDA e :
        e.op \in {"payroll.create", "payroll.update"} /\ e.res = "ok"))

\* the Payment status a request's own successful writes left
OwnPaymentStatus(l) ==
    LastArg(SelectSeq(l, LAMBDA e :
        e.op \in {"createManyPayments", "payments.update"} /\ e.res = "ok"))

\* the rows under a request's payroll id hold what that request wrote
RowsAreOwn(l, id, row) ==
    IF id = "null"
    THEN OwnPayrollStatus(l) = ""
    ELSE /\ row.payroll.exists
         /\ row.payroll.status = OwnPayrollStatus(l)
         /\ \A i \in DOMAIN row.payments :
               row.payments[i] = OwnPaymentStatus(l)

Credit(c) ==
    IF calls[c].fn = "updateCompanyBalance" /\ calls[c].result = "returned"
    THEN calls[c].amount ELSE 0

BalanceCallsDone ==
    \A c \in Callers :
        calls[c].fn = "updateCompanyBalance" /\ calls[c].pc = "done"

\* C29: once the concurrent updateCompanyBalance calls have ended, the stored
\* balance is the initial balance (nothing when the record was missing) plus
\* the amounts of the calls that returned.
C29_NoLostUpdate ==
    BalanceCallsDone =>
        bdb.balance.balanceToken
            = bdb.initial.balanceToken + Credit(1) + Credit(2)

\* a confirmPayment call that ended having found the intent not pending
FoundNotPending(c) ==
    /\ calls[c].fn = "confirmPayment" /\ calls[c].pc = "done"
    /\ calls[c].error # "db_error" /\ calls[c].error # "price_error"
    /\ (~calls[c].payment.exists \/ calls[c].payment.status # "PENDING_X402")

\* the intent was found confirmed with the hash the call passes
FoundConfirmedSame(c) ==
    /\ calls[c].payment.exists
    /\ calls[c].payment.status = "CONFIRMED_ONCHAIN"
    /\ calls[c].payment.txHash = calls[c].txHash

\* C30: a confirmPayment call that finds the intent already confirmed with
\* the same txHash returns the stored record; one that finds another txHash,
\* another status than PENDING_X402 or no intent throws; either way the call
\* writes neither the payment nor the balance.
C30_ConfirmRepeatIsIdempotent ==
    \A c \in Callers :
        FoundNotPending(c) =>
            /\ calls[c].writes = 0
            /\ IF FoundConfirmedSame(c)
               THEN /\ calls[c].result = "returned"
                    /\ calls[c].returned = calls[c].payment
               ELSE calls[c].result = "threw"

C30_Witness ==
    /\ calls[1].fn = "confirmPayment" /\ calls[1].result = "returned"
    /\ calls[1].writes = 2
    /\ FoundNotPending(2) /\ FoundConfirmedSame(2)
    /\ calls[2].result = "returned" /\ calls[2].writes = 0
    /\ bdb.balance.balanceToken = bdb.initial.balanceToken + calls[1].amount

\* executePayrollDemo returned after its final Payroll and Payment writes
DemoCompleted ==
    /\ mode \in DemoModes /\ pc = "done" /\ outcome = "returned"
    /\ railResult.has /\ Len(log) >= 2
    /\ log[Len(log) - 1].op = "payments.update"
    /\ log[Len(log) - 1].res = "ok"

\* C31: a run of executePayrollDemo that made its final writes ends PAID
\* exactly when the rail result is PAID; otherwise it ends ONCHAIN_PAID if the
\* on-chain execution returned a hash, and FAILED only if it returned none;
\* the Payments end with the status of the Payroll.
C31_DemoFinalStatus ==
    DemoCompleted =>
        /\ (payroll.status = PAID) <=> (railResult.status = "PAID")
        /\ (railResult.status # "PAID" /\ onchainSuccess)
              => payroll.status = ONCHAIN_PAID
        /\ payroll.status = FAILED
              => (railResult.status # "PAID" /\ ~onchainSuccess)
        /\ AllPayments(payroll.status)

\* the same statement for the first definition alone
C31_FirstDefinition == (mode = "demo") => C31_DemoFinalStatus

\* the checkAuth calls that wait for getCurrentUser()
InFlightChecks ==
    { i \in CallIds : acalls[i].fn = "checkAuth" /\ acalls[i].pc = "await" }

\* C32: at most one auth check is in flight, isCheckingRef is set exactly
\* while one is, and it is always cleared again.
C32_OneCheckInFlight ==
    /\ [](/\ Cardinality(InFlightChecks) <= 1
          /\ auth.isChecking <=> (InFlightChecks # {}))
    /\ (auth.isChecking ~> ~auth.isChecking)

C32_Witness ==
    /\ \E i \in CallIds : acalls[i].fn = "checkAuth"
                          /\ acalls[i].pc = "done" /\ auth.user = "u1"
    /\ \E j \in CallIds : acalls[j].fn = "checkAuth"
                          /\ acalls[j].pc = "await"
    /\ auth.isChecking

\* C38: from a logout until a later login, signup or checkAuth begins, the
\* user, the company and the stored token stay cleared.
C38_LogoutStaysLoggedOut ==
    loggedOut =>
        (auth.user = "null" /\ auth.company = "null" /\ auth.token = NoToken)

\* C33: a response of the payment-processing handler with success = true
\* never reports the payroll status FAILED.
C33_SuccessNeverReportsFailed ==
    (mode = "handler" /\ response.code # 0 /\ response.success)
        => response.status # FAILED

\* C34: a request admitted to the payment-processing handler is answered
\* (given that every awaited call returns or throws), the handler does not
\* end without a response, and a response once sent is never followed by
\* another.
C34_ExactlyOneResponse ==
    /\ []((mode = "handler" /\ pc = "done") => response.code # 0)
    /\ [][response.code # 0 => response' = response]_vars
    /\ ((mode = "handler") ~> (response.code # 0 /\ pc = "done"))

C34_Witness ==
    /\ mode = "handler" /\ pc = "done" /\ response.code = 500
    /\ LogHas("payroll.update", FAILED, "throw")
    /\ LogHas("payments.update", RAIL_PROCESSING, "throw")

\* how an awaited validateWithFacilitator call may end
FacilitatorOutcomes == {"valid", "invalid", "throws"}

\* the boolean validateXPaymentHeader returns when a facilitator call, if
\* it makes one, ends as fo
HeaderVerdict(h, m, c, fo) ==
    IF h = DEMO_TOKEN /\ AllowDemoToken(c) THEN TRUE
    ELSE IF ~GetMeter(m) THEN h = DEMO_TOKEN /\ AllowDemoToken(c)
    ELSE IF fo = "valid" THEN TRUE
    ELSE h = DEMO_TOKEN /\ AllowDemoToken(c)

\* the valid member validatePaymentDetailed returns in the same situation
DetailedVerdict(h, m, c, fo) ==
    IF h = DEMO_TOKEN /\ IsMockFacilitator(c) THEN TRUE
    ELSE IF ~GetMeter(m) THEN FALSE
    ELSE IF fo = "throws" THEN h = DEMO_TOKEN
    ELSE fo = "valid"

\* the facilitator outcomes a finished run is compatible with: the one it
\* saw, or any if it made no call
SeenOutcomes ==
    { fo \in FacilitatorOutcomes : facilitatorOutcome \in {"none", fo} }

\* the two operators give what the runs of the two validators return
VerdictsMatchRuns ==
    (vfn \in ValidatorFns /\ vresult.done) =>
        \A fo \in SeenOutcomes :
            vresult.valid = IF vfn = "header"
                            THEN HeaderVerdict(headerValue, meterId, config, fo)
                            ELSE DetailedVerdict(headerValue, meterId, config, fo)

\* C35: what a finished run of one validator returned is what the other
\* validator returns for the same header value, meter id, configuration and
\* facilitator outcome.
C35_ValidatorsAgree ==
    (vfn \in ValidatorFns /\ vresult.done) =>
        \A fo \in SeenOutcomes :
            vresult.valid = IF vfn = "header"
                            THEN DetailedVerdict(headerValue, meterId, config, fo)
                            ELSE HeaderVerdict(headerValue, meterId, config, fo)

\* C36: testContract runs the contract operations only after a verification
\* that reported the payload valid (or without a payload), answers 402 and
\* stops when the verification reports it invalid, calls settlePayment only
\* after the operations returned, and ends without settling when they threw.
C36_VerifyExecuteSettle ==
    [][(tfn = "testContract") =>
          /\ (tpc # "execute" /\ tpc' = "execute")
                => IF paymentPayload'
                   THEN verifyResult' = "valid" /\ verifyCalls' = 1
                   ELSE verifyResult' = "none" /\ verifyCalls' = 0
          /\ (verifyResult' = "invalid")
                => (tpc' = "done" /\ tresponse'.code = 402
                      /\ tresponse'.summary = "" /\ settleCalls' = 0)
          /\ (settleCalls' # settleCalls)
                => (tpc = "settle" /\ tresponse.summary # "")
          /\ (tpc # "settle" /\ tpc' = "settle")
                => (tpc = "execute" /\ tresponse'.summary # "")
          /\ (tpc = "execute" /\ tresponse'.code = 500)
                => (tpc' = "done" /\ settleCalls' = 0)]_vars

C36_Witness ==
    /\ tfn = "testContract" /\ tpc = "done"
    /\ paymentPayload /\ verifyResult = "valid"
    /\ tresponse.code = 500 /\ tresponse.summary = ""
    /\ settleCalls = 0

\* two finished confirmPayment calls for the same intent, txHash and amount
SameConfirmation ==
    /\ \A c \in Callers :
          /\ calls[c].fn = "confirmPayment" /\ calls[c].pc = "done"
          /\ calls[c].paymentIntentId = "pmt_1"
    /\ calls[1].txHash = calls[2].txHash
    /\ calls[1].amount = calls[2].amount

\* C37: after concurrent confirmPayment calls for the same intent with the
\* same txHash, the company balance holds the payment amount at most once
\* over its initial value, and exactly once if a call returned after
\* confirming.
C37_ConfirmCreditsOnce ==
    SameConfirmation =>
        /\ bdb.balance.balanceToken
              <= bdb.initial.balanceToken + calls[1].amount
        /\ (\E c \in Callers : calls[c].result = "returned"
                                 /\ calls[c].writes = 2)
              => bdb.balance.balanceToken
                   = bdb.initial.balanceToken + calls[1].amount

====
